---- MODULE Spec2Model ----
(***************************************************************************)
(* State-machine models of the monitoring scripts of the repository:       *)
(*   - Shinobi.py      : main() driver loop, trigger_apps_script,          *)
(*                       process_monitors                                  *)
(*   - server_check.py : ping_server, log_server_status                    *)
(*   - shinobi_deep.py : process_monitors, ShinobiAPI.get_all_monitors,    *)
(*                       main() loop                                       *)
(*   - optimized_shinobi_grok.py : main() loop                             *)
(* Each program has its own specification (Spec, SpecServerCheck,          *)
(* SpecProcess); the variables of the other programs stay at their idle    *)
(* values.  Variables marked "history" record what the program did (calls  *)
(* made, observations seen); the program itself never reads them.          *)
(***************************************************************************)
EXTENDS Integers, Sequences, FiniteSets, TLC

VARIABLES
    \* ---- Shinobi.py main(): program state
    pc,                      \* position of main()
    config,                  \* Config object returned by load_config (or NoConfig)
    sheet,                   \* GoogleSheetsClient.sheet is set
    shutdown,                \* main.shutdown flag
    consecutive_failures,    \* main.consecutive_failures
    last_notification_time,  \* main.last_notification_time
    server_was_up,           \* main.server_was_up
    server_status,           \* main.server_status of the cycle ("raise": health_check raised)
    start_time,              \* main.start_time of the cycle
    now,                     \* time.time()
    exit_code,               \* process exit status once the process has ended
    \* ---- Shinobi.py main(): history
    cycles,                  \* cycles started (loop condition passed)
    prev_health,             \* result class of the previous cycle's health check
    down_alert,              \* this cycle called trigger_apps_script with the down message
    alert_ok_time,           \* <<t>> of the last down alert that was delivered, <<>> if none
    outage_delivered,        \* a down alert was delivered since the last OK health check
    exit_notifications,      \* calls of trigger_apps_script with the exit message
    fail_run,                \* consecutive cycles whose health check was not OK
    fetch_fail_run,          \* consecutive cycles whose get_all_monitors gave None
    saved,                   \* this cycle wrote its JSON summary
    append_called,           \* this cycle called sheets_client.append_row
    signal_pc,               \* position of main() when the first signal arrived
    \* ---- server_check.py: program state
    sc_pc,                   \* position of log_server_status / the schedule loop
    server_status_tracker,   \* module-level tracker, one entry per server key
    excel_file,              \* log_server_status.excel_file: the day of the run's file
    files,                   \* the saved workbooks of LOG_DIR, by day
    workbook,                \* the workbook log_server_status holds in memory
    sc_time,                 \* log_server_status.current_time, in seconds
    sc_i,                    \* index in `servers` of the next server of this run
    \* ---- server_check.py: history
    runs,                    \* runs of log_server_status started
    wb_loaded,               \* the workbook as this run loaded it
    observations,            \* per server: <<[t, status]>> of every ping_server result
    alerts,                  \* per server: the times of its send_whatsapp_alert calls
    last_delivery,           \* server and outcome of the latest send_whatsapp_alert call
    appended,                \* per server: <<[sheet, row]>> of every sheet.append call
    \* ---- server_check.py ping_server: one call
    ping_in,                 \* outcomes of ping3 and of the system ping, per probe
    ping_out,                \* <<result>> once ping_server has returned
    \* ---- Shinobi.py process_monitors: one call
    pm_data,                 \* argument monitors_data
    pm_ids,                  \* config.monitor_ids
    pm_clock,                \* datetime.now(pytz.utc) during the call
    pm_result,               \* <<returned dict>> once process_monitors has returned
    pm_result2,              \* <<returned dict>> of a later call with the same arguments
    \* ---- shinobi_deep.py process_monitors: one call
    dp_data,                 \* argument monitors_data
    dp_ids,                  \* config.monitor_ids
    dp_threshold,            \* config.threshold_percentage, in hundredths of a percent
    dp_clock,                \* datetime.now() during the call
    dp_result,               \* <<returned dict>> once process_monitors has returned
    \* ---- shinobi_deep.py ShinobiAPI.get_all_monitors: a series of calls
    last_successful_fetch,   \* ShinobiAPI.last_successful_fetch (None, or <<time>>)
    fetch_clock,             \* time.time()
    fetches,                 \* history: calls made
    fetch_response,          \* history: what the latest call met
    fetch_result,            \* history: <<outcome>> of the latest call
    \* ---- shinobi_deep.py main(): program state
    dm_pc,                   \* position of main()
    dm_shutdown,             \* main.shutdown
    consecutive_errors,      \* main.consecutive_errors
    dm_sheet,                \* sheets_client.sheet is set
    dm_exit_code,            \* process exit status once the process has ended
    \* ---- shinobi_deep.py main(): history
    dm_cycles,               \* cycles started
    dm_fetch,                \* what this cycle's get_all_monitors gave
    dm_saved,                \* this cycle wrote a summary file
    dm_appended,             \* this cycle appended a spreadsheet row
    \* ---- optimized_shinobi_grok.py main(): program state
    gm_pc,                   \* position of main()
    gm_shutdown,             \* main.shutdown
    gm_sheet,                \* sheets_client.sheet is set
    gm_exit_code,            \* process exit status once the process has ended
    \* ---- optimized_shinobi_grok.py main(): history
    gm_fetches,              \* calls of api.get_all_monitors made
    gm_slept,                \* time.sleep was called since the latest of them
    gm_saved,                \* the latest cycle wrote its summary file
    gm_appended,             \* the latest cycle appended its spreadsheet row
    \* ---- shinobi_deep.py GoogleSheetsClient.append_row: one call
    da_pc,                   \* position in append_row
    da_max_retries,          \* config.max_retries
    da_sheet,                \* self.sheet is set
    da_attempt,              \* the loop variable attempt
    da_result,               \* <<returned pair>> once append_row has returned
    \* ---- shinobi_deep.py GoogleSheetsClient.append_row: history
    da_outcomes,             \* what each self.sheet.append_row call met
    da_reauths,              \* _initialize_client calls made after a 401/403
    da_waits,                \* the time.sleep calls, in units of retry_backoff_factor
    \* ---- shinobi_deep.py save_metrics: one call
    sv_pc,                   \* position in save_metrics
    sv_max_log_files,        \* config.max_log_files
    sv_dir,                  \* number of monitor_statuses* files in output_dir
    sv_files,                \* len(files), the sorted listing still to prune
    sv_result,               \* <<returned path>> once save_metrics has returned
    \* ---- shinobi_deep.py save_metrics: history
    sv_remove_failed,        \* an os.remove of the pruning loop raised
    sv_written,              \* this call wrote its summary file
    \* ---- shinobi_monitor.py ShinobiAPI.get_all_monitors: one call
    mf_pc,                   \* position in get_all_monitors
    mf_max_retries,          \* config.max_retries
    mf_factor,               \* config.retry_backoff_factor
    mf_attempt,              \* the loop variable attempt
    mf_result,               \* <<what the call returned or raised>> once it has ended
    \* ---- shinobi_monitor.py ShinobiAPI.get_all_monitors: history
    mf_outcomes,             \* what each session.get attempt met
    mf_waits,                \* the time.sleep calls, in seconds
    \* ---- Shinobi.py GoogleSheetsClient.append_row: one call
    ar_pc,                   \* position in append_row
    ar_max_retries,          \* config.max_retries
    ar_factor,               \* config.retry_backoff_factor
    ar_sheet,                \* self.sheet is not None
    ar_attempt,              \* the loop variable attempt
    ar_result,               \* <<returned value>> once append_row has returned
    \* ---- Shinobi.py GoogleSheetsClient.append_row: history
    ar_outcomes,             \* whether each self.sheet.append_row call succeeded
    ar_waits,                \* the time.sleep calls, in seconds
    \* ---- status_check.py: the __main__ loop and main()
    st_pc,                   \* position in the loop / in main()
    st_sheet,                \* sheets_client.sheet of this cycle's client is set
    st_exit,                 \* how the process ended: "running", "break" or "uncaught"
    \* ---- status_check.py: history
    st_cycles,               \* calls of main() started so far
    st_written,              \* the current cycle wrote its JSON summary file
    st_append_called,        \* the current cycle called sheets_client.append_row
    st_files,                \* JSON summary files written so far
    st_rows,                 \* rows appended to the spreadsheet so far
    st_errors                \* "Unexpected error in loop" entries logged so far

main_vars == <<pc, config, sheet, shutdown, consecutive_failures,
               last_notification_time, server_was_up, server_status, start_time,
               now, exit_code, cycles, prev_health, down_alert, alert_ok_time, outage_delivered,
               exit_notifications, fail_run, fetch_fail_run, saved, append_called,
               signal_pc>>

sc_vars == <<sc_pc, server_status_tracker, excel_file, files, workbook, sc_time,
             sc_i, runs, wb_loaded, observations, alerts, last_delivery,
             appended>>

ping_vars == <<ping_in, ping_out>>

pm_vars == <<pm_data, pm_ids, pm_clock, pm_result, pm_result2>>

dp_vars == <<dp_data, dp_ids, dp_threshold, dp_clock, dp_result>>

\* the variables of the other scripts of the repository
df_vars == <<last_successful_fetch, fetch_clock, fetches, fetch_response,
             fetch_result>>

dm_vars == <<dm_pc, dm_shutdown, consecutive_errors, dm_sheet, dm_exit_code,
             dm_cycles, dm_fetch, dm_saved, dm_appended>>

gm_vars == <<gm_pc, gm_shutdown, gm_sheet, gm_exit_code, gm_fetches, gm_slept,
             gm_saved, gm_appended>>

ext_vars == <<dp_vars, df_vars, dm_vars, gm_vars>>

da_vars == <<da_pc, da_max_retries, da_sheet, da_attempt, da_result,
             da_outcomes, da_reauths, da_waits>>

sv_vars == <<sv_pc, sv_max_log_files, sv_dir, sv_files, sv_result,
             sv_remove_failed, sv_written>>

mf_vars == <<mf_pc, mf_max_retries, mf_factor, mf_attempt, mf_result,
             mf_outcomes, mf_waits>>

ar_vars == <<ar_pc, ar_max_retries, ar_factor, ar_sheet, ar_attempt, ar_result,
             ar_outcomes, ar_waits>>

st_vars == <<st_pc, st_sheet, st_exit, st_cycles, st_written, st_append_called,
             st_files, st_rows, st_errors>>

more_vars == <<da_vars, sv_vars, mf_vars, ar_vars, st_vars>>

\* for the actions of one group: the variables of all the others
not_da_vars == <<main_vars, sc_vars, ping_vars, pm_vars, ext_vars,
                sv_vars, mf_vars, ar_vars, st_vars>>
not_sv_vars == <<main_vars, sc_vars, ping_vars, pm_vars, ext_vars,
                da_vars, mf_vars, ar_vars, st_vars>>
not_mf_vars == <<main_vars, sc_vars, ping_vars, pm_vars, ext_vars,
                da_vars, sv_vars, ar_vars, st_vars>>
not_ar_vars == <<main_vars, sc_vars, ping_vars, pm_vars, ext_vars,
                da_vars, sv_vars, mf_vars, st_vars>>
not_st_vars == <<main_vars, sc_vars, ping_vars, pm_vars, ext_vars,
                da_vars, sv_vars, mf_vars, ar_vars>>

vars == <<main_vars, sc_vars, ping_vars, pm_vars, ext_vars, more_vars>>

(***************************************************************************)
(* Bounds of the model                                                     *)
(***************************************************************************)
MaxCycles == 4          \* cycles of main() explored
MaxFailLimit == 3       \* largest max_consecutive_failures explored
MaxElapsed == 1         \* longest duration of one health check explored
NumServers == 2         \* entries of `servers` explored (the first ones)
MaxRuns == 3            \* runs of log_server_status explored
MaxRecords == 3         \* longest list of monitor records explored
MaxIds == 2             \* longest config.monitor_ids explored
MaxFetches == 3         \* calls of ShinobiAPI.get_all_monitors explored
MaxBodyLen == 2         \* longest list body of a fetch explored
MaxDeepCycles == 5      \* cycles of shinobi_deep.py's main() explored
MaxGrokFetches == 4     \* fetches of optimized_shinobi_grok.py's main() explored
MaxRetries == 4         \* largest config.max_retries explored
MaxStatusCycles == 3    \* calls of status_check.py's main() explored
MaxFactor == 3          \* largest config.retry_backoff_factor explored
MaxLogFiles == 4        \* largest config.max_log_files explored
MaxDirFiles == 5        \* most summary files found in output_dir

(***************************************************************************)
(* Shinobi.py : configuration                                              *)
(***************************************************************************)
NoConfig == [ok |-> FALSE]

\* time.time() at process start; far larger than any cooldown explored, as
\* the epoch clock is.
Epoch == 10

HealthStatuses == {"OK", "INVALID_RESPONSE", "UNREACHABLE", "TIMEOUT", "ERROR"}

\* The Config objects explored: load_config returns one of them when the
\* .env file is present and valid.
Configs ==
    [ok : {TRUE},
     max_consecutive_failures : 1..MaxFailLimit,
     notification_cooldown : {0, 3, 7},
     update_interval : {2},
     apps_script_url : {"", "url"}]

\* load_config: raises (FileNotFoundError, ValueError, ValidationError,
\* JSONDecodeError) or returns a Config.
load_config(env) == IF env.ok THEN env ELSE NoConfig

(***************************************************************************)
(* Shinobi.py : trigger_apps_script                                        *)
(***************************************************************************)
\* TRUE iff the POST was made and answered without an HTTP error; with no
\* URL configured no POST is made and the result is False.
trigger_apps_script(cfg, post_ok) ==
    IF cfg.apps_script_url = "" THEN FALSE ELSE post_ok

(***************************************************************************)
(* Shinobi.py : main() decisions                                           *)
(***************************************************************************)
\* while not shutdown
LoopConditionIgnoresFlag(flag) == TRUE
LoopCondition(flag) == ~flag

\* if server_was_up or (current_time - last_notification_time) >= cooldown
ShouldNotifyNoCooldown(was_up, current_time, last_time, cooldown) == TRUE
ShouldNotify(was_up, current_time, last_time, cooldown) ==
    was_up \/ (current_time - last_time) >= cooldown

\* if consecutive_failures >= config.max_consecutive_failures
FailuresExhaustedStrict(failures, max) == failures > max
FailuresExhausted(failures, max) == failures >= max

\* sleep_time = max(config.update_interval - elapsed_time, 0)
SleepTime(interval, elapsed) == IF interval - elapsed > 0 THEN interval - elapsed ELSE 0

(***************************************************************************)
(* Shinobi.py : main()                                                     *)
(***************************************************************************)
\* the state of main() before its first statement
MainStart ==
    /\ sheet = FALSE
    /\ shutdown = FALSE
    /\ consecutive_failures = 0
    /\ last_notification_time = 0
    /\ server_was_up = TRUE
    /\ server_status = "none"
    /\ start_time = Epoch
    /\ now = Epoch
    /\ exit_code = <<>>
    /\ cycles = 0
    /\ prev_health = "none"
    /\ down_alert = FALSE
    /\ alert_ok_time = <<>>
    /\ outage_delivered = FALSE
    /\ exit_notifications = 0
    /\ fail_run = 0
    /\ fetch_fail_run = 0
    /\ saved = FALSE
    /\ append_called = FALSE
    /\ signal_pc = "none"

MainInit ==
    /\ pc = "load_config"
    /\ config \in Configs \cup {NoConfig}
    /\ MainStart

\* Shinobi.py is not running
MainIdle ==
    /\ pc = "off"
    /\ config = NoConfig
    /\ MainStart

\* lines 411-416: config = load_config(); on any exception print and return.
\* main() returning ends the process with exit status 0.
LoadConfig ==
    /\ UNCHANGED <<sc_vars, ping_vars, pm_vars, ext_vars, more_vars>>
    /\ pc = "load_config"
    /\ IF load_config(config).ok
       THEN pc' = "init_sheets" /\ exit_code' = exit_code
       ELSE pc' = "returned" /\ exit_code' = <<0>>
    /\ UNCHANGED <<config, sheet, shutdown, consecutive_failures,
                   last_notification_time, server_was_up, server_status,
                   start_time, now, cycles, prev_health, down_alert,
                   alert_ok_time, outage_delivered, exit_notifications, fail_run, fetch_fail_run,
                   saved, append_called, signal_pc>>

\* lines 422-436: the clients are built and the signal handlers installed.
\* GoogleSheetsClient.__init__ calls _initialize_client, which re-raises any
\* failure; after tenacity's 3 attempts the RetryError leaves main() uncaught
\* and the process ends with a traceback (exit status 1).
InitClients ==
    /\ UNCHANGED <<sc_vars, ping_vars, pm_vars, ext_vars, more_vars>>
    /\ pc = "init_sheets"
    /\ \E init_ok \in BOOLEAN :
          IF init_ok
          THEN sheet' = TRUE /\ pc' = "while" /\ exit_code' = exit_code
          ELSE sheet' = FALSE /\ pc' = "crashed" /\ exit_code' = <<1>>
    /\ UNCHANGED <<config, shutdown, consecutive_failures,
                   last_notification_time, server_was_up, server_status,
                   start_time, now, cycles, prev_health, down_alert,
                   alert_ok_time, outage_delivered, exit_notifications, fail_run, fetch_fail_run,
                   saved, append_called, signal_pc>>

\* line 438: while not shutdown; line 440: start_time = time.time()
LoopCheck ==
    /\ UNCHANGED <<sc_vars, ping_vars, pm_vars, ext_vars, more_vars>>
    /\ pc = "while"
    /\ IF LoopCondition(shutdown)
       THEN /\ cycles < MaxCycles
            /\ pc' = "health_check"
            /\ cycles' = cycles + 1
            /\ start_time' = now
            /\ exit_code' = exit_code
            /\ down_alert' = FALSE
            /\ saved' = FALSE
            /\ append_called' = FALSE
       ELSE /\ pc' = "returned"
            /\ exit_code' = <<0>>
            /\ UNCHANGED <<cycles, start_time, down_alert, saved, append_called>>
    /\ UNCHANGED <<config, sheet, shutdown, consecutive_failures,
                   last_notification_time, server_was_up, server_status, now,
                   prev_health, alert_ok_time, outage_delivered, exit_notifications, fail_run,
                   fetch_fail_run, signal_pc>>

\* lines 441-465: health check, down alert, exhaustion exit.  health_check
\* returns one of HealthStatuses; a body that is no JSON makes resp.json()
\* raise, which health_check turns into "ERROR" where the exception is a
\* RequestException and which otherwise reaches main()'s `except Exception`
\* ("raise": the error is logged and the loop sleeps update_interval).
HealthCheck ==
    /\ UNCHANGED <<sc_vars, ping_vars, pm_vars, ext_vars, more_vars>>
    /\ pc = "health_check"
    /\ \E status \in HealthStatuses \cup {"raise"}, elapsed \in 0..MaxElapsed,
          post_ok \in BOOLEAN :
          LET current_time == now + elapsed
              failures == consecutive_failures + 1
              notify == ShouldNotify(server_was_up, current_time,
                                     last_notification_time,
                                     config.notification_cooldown)
              delivered == notify /\ trigger_apps_script(config, post_ok)
          IN  /\ now' = current_time
              /\ server_status' = status
              /\ IF status = "raise"
                 THEN /\ pc' = "sleep_interval"
                      /\ fetch_fail_run' = 0
                      /\ UNCHANGED <<consecutive_failures, last_notification_time,
                                     server_was_up, down_alert, alert_ok_time, outage_delivered,
                                     prev_health, fail_run, exit_notifications,
                                     exit_code>>
                 ELSE IF status /= "OK"
                 THEN /\ consecutive_failures' = failures
                      /\ last_notification_time' =
                            IF delivered THEN current_time ELSE last_notification_time
                      /\ server_was_up' = IF notify THEN FALSE ELSE server_was_up
                      /\ down_alert' = notify
                      /\ alert_ok_time' =
                            IF delivered THEN <<current_time>> ELSE alert_ok_time
                      /\ outage_delivered' =
                            IF fail_run = 0 THEN delivered
                            ELSE outage_delivered \/ delivered
                      /\ prev_health' = "FAIL"
                      /\ fail_run' = fail_run + 1
                      /\ fetch_fail_run' = 0
                      /\ IF FailuresExhausted(failures, config.max_consecutive_failures)
                         THEN /\ exit_notifications' = exit_notifications + 1
                              /\ pc' = "exited"
                              /\ exit_code' = <<1>>
                         ELSE /\ exit_notifications' = exit_notifications
                              /\ pc' = "sleep_interval"
                              /\ exit_code' = exit_code
                 ELSE /\ consecutive_failures' = 0
                      /\ server_was_up' = TRUE
                      /\ prev_health' = "OK"
                      /\ fail_run' = 0
                      /\ pc' = "get_all_monitors"
                      /\ UNCHANGED <<last_notification_time, down_alert,
                                     alert_ok_time, outage_delivered, fetch_fail_run,
                                     exit_notifications, exit_code>>
    /\ UNCHANGED <<config, sheet, shutdown, start_time, cycles, saved,
                   append_called, signal_pc>>

\* lines 467-482: fetch and process.  (The `except requests.RequestException`
\* clause of lines 498-513 is never entered: health_check, get_all_monitors
\* and trigger_apps_script catch that exception themselves, and nothing else
\* in the loop body makes a request.)  The fetch gives None, a non-empty list
\* of records ("list"), a body process_monitors answers with empty metrics
\* ("empty": an empty list or an ok object), or raises (tenacity's RetryError
\* after a body that is no JSON, or process_monitors on a malformed record),
\* which `except Exception` logs before sleeping update_interval.
GetAllMonitors ==
    /\ UNCHANGED <<sc_vars, ping_vars, pm_vars, ext_vars, more_vars>>
    /\ pc = "get_all_monitors"
    /\ \E result \in {"none", "list", "empty", "raise"} :
          LET failures == consecutive_failures + 1
          IN  IF result = "none"
              THEN /\ consecutive_failures' = failures
                   /\ fetch_fail_run' = fetch_fail_run + 1
                   /\ IF FailuresExhausted(failures, config.max_consecutive_failures)
                      THEN /\ exit_notifications' = exit_notifications + 1
                           /\ pc' = "exited"
                           /\ exit_code' = <<1>>
                      ELSE /\ exit_notifications' = exit_notifications
                           /\ pc' = "sleep_interval"
                           /\ exit_code' = exit_code
              ELSE /\ pc' = CASE result = "list" -> "save_metrics"
                              [] result = "empty" -> "sleep_rest"
                              [] OTHER -> "sleep_interval"
                   /\ fetch_fail_run' = 0
                   /\ UNCHANGED <<consecutive_failures, exit_notifications, exit_code>>
    /\ UNCHANGED <<config, sheet, shutdown, last_notification_time,
                   server_was_up, server_status, start_time, now, cycles,
                   prev_health, down_alert, alert_ok_time, outage_delivered, fail_run, saved,
                   append_called, signal_pc>>

\* line 483, save_metrics (lines 366-389): the file is written; or open/dump
\* fails and "" is returned; or the file is written and the clean-up of old
\* files fails (listdir, getmtime), which also returns ""; or os.makedirs
\* fails, and the except block's message reads output_path before it was
\* ever assigned: the UnboundLocalError leaves save_metrics and is caught by
\* main()'s `except Exception`, which sleeps update_interval.
SaveMetrics ==
    /\ UNCHANGED <<sc_vars, ping_vars, pm_vars, ext_vars, more_vars>>
    /\ pc = "save_metrics"
    /\ \E outcome \in {"written", "write_error", "cleanup_error", "makedirs_error"} :
          /\ saved' = (outcome \in {"written", "cleanup_error"})
          /\ pc' = IF outcome = "makedirs_error" THEN "sleep_interval" ELSE "append_row"
    /\ UNCHANGED <<config, sheet, shutdown, consecutive_failures,
                   last_notification_time, server_was_up, server_status,
                   start_time, now, exit_code, cycles, prev_health, down_alert,
                   alert_ok_time, outage_delivered, exit_notifications, fail_run, fetch_fail_run,
                   append_called, signal_pc>>

\* lines 484-493: sheets_client.append_row(...) returns True or False; either
\* way the metrics are printed and the cycle goes on.
AppendRow ==
    /\ UNCHANGED <<sc_vars, ping_vars, pm_vars, ext_vars, more_vars>>
    /\ pc = "append_row"
    /\ append_called' = TRUE
    /\ pc' = "sleep_rest"
    /\ UNCHANGED <<config, sheet, shutdown, consecutive_failures,
                   last_notification_time, server_was_up, server_status,
                   start_time, now, exit_code, cycles, prev_health, down_alert,
                   alert_ok_time, outage_delivered, exit_notifications, fail_run, fetch_fail_run,
                   saved, signal_pc>>

\* lines 495-497: sleep the rest of the interval.
SleepRest ==
    /\ UNCHANGED <<sc_vars, ping_vars, pm_vars, ext_vars, more_vars>>
    /\ pc = "sleep_rest"
    /\ now' = now + SleepTime(config.update_interval, now - start_time)
    /\ pc' = "while"
    /\ UNCHANGED <<config, sheet, shutdown, consecutive_failures,
                   last_notification_time, server_was_up, server_status,
                   start_time, exit_code, cycles, prev_health, down_alert,
                   alert_ok_time, outage_delivered, exit_notifications, fail_run, fetch_fail_run,
                   saved, append_called, signal_pc>>

\* lines 461-462, 477-478, 516: time.sleep(config.update_interval); continue
SleepInterval ==
    /\ UNCHANGED <<sc_vars, ping_vars, pm_vars, ext_vars, more_vars>>
    /\ pc = "sleep_interval"
    /\ now' = now + config.update_interval
    /\ pc' = "while"
    /\ UNCHANGED <<config, sheet, shutdown, consecutive_failures,
                   last_notification_time, server_was_up, server_status,
                   start_time, exit_code, cycles, prev_health, down_alert,
                   alert_ok_time, outage_delivered, exit_notifications, fail_run, fetch_fail_run,
                   saved, append_called, signal_pc>>

\* lines 430-436, signal_handler: SIGINT/SIGTERM while the loop runs.
SignalHandler ==
    /\ UNCHANGED <<sc_vars, ping_vars, pm_vars, ext_vars, more_vars>>
    /\ pc \in {"while", "health_check", "get_all_monitors", "save_metrics",
               "append_row", "sleep_rest", "sleep_interval"}
    /\ shutdown' = TRUE
    /\ signal_pc' = IF shutdown THEN signal_pc ELSE pc
    /\ UNCHANGED <<pc, config, sheet, consecutive_failures,
                   last_notification_time, server_was_up, server_status,
                   start_time, now, exit_code, cycles, prev_health, down_alert,
                   alert_ok_time, outage_delivered, exit_notifications, fail_run, fetch_fail_run,
                   saved, append_called>>

(***************************************************************************)
(* Shinobi.py : properties of main()                                       *)
(***************************************************************************)
\* C1: when the health check has been non-OK in max_consecutive_failures
\* consecutive cycles (no OK health check in between), the process has
\* ended in the last of them with exit status 1 after exactly one exit
\* notification; "exited" is final, so no further cycle starts.
C1_ExhaustedHealthFailuresExit ==
    (fail_run >= 1 /\ fail_run >= config.max_consecutive_failures)
        => (pc = "exited" /\ exit_code = <<1>> /\ exit_notifications = 1)

C1_Witness ==
    /\ pc = "exited"
    /\ fail_run = 3
    /\ config.max_consecutive_failures = 3
    /\ exit_notifications = 1

\* C2 (as claimed): after max_consecutive_failures consecutive cycles whose
\* fetch gave None, the process has stopped with a non-zero exit status,
\* also when the health check of each of those cycles succeeded.
C2_FetchFailuresStop ==
    (fetch_fail_run >= 1 /\ fetch_fail_run >= config.max_consecutive_failures)
        => (pc = "exited" /\ exit_code = <<1>>)

\* C3: a cycle whose health check is not OK calls trigger_apps_script with
\* the down message if and only if the previous health check was OK (or
\* there was none), or no down alert was delivered yet, or at least
\* notification_cooldown seconds have passed since the last delivered one.
C3_DownAlertIffUpOrCooldown ==
    [][ (pc = "health_check" /\ pc' /= "health_check"
            /\ server_status' \notin {"OK", "raise"})
          => (down_alert' <=>
                 \/ prev_health \in {"none", "OK"}
                 \/ alert_ok_time = <<>>
                 \/ now' - alert_ok_time[1] >= config.notification_cooldown) ]_vars

\* a failing cycle of an outage whose alert was delivered makes no second
\* call while the cooldown window is open
C3_Witness ==
    /\ pc = "sleep_interval"
    /\ server_status \notin {"OK", "raise"}
    /\ ~down_alert
    /\ alert_ok_time /= <<>>
    /\ fail_run >= 2

\* C4: a signal changes nothing but the flag; once the flag is set no new
\* cycle starts; the loop check that sees the flag returns from main() with
\* exit status 0; and main() returns only from the loop check (or from the
\* failed load_config), never from the middle of a cycle.
C4_SignalOnlySetsFlag ==
    [][ /\ (shutdown' /= shutdown)
             => (shutdown' /\ UNCHANGED <<pc, config, sheet, consecutive_failures,
                                          last_notification_time, server_was_up,
                                          server_status, start_time, now, exit_code,
                                          cycles, saved, append_called, down_alert,
                                          exit_notifications>>)
        /\ shutdown => (cycles' = cycles)
        /\ (shutdown /\ pc = "while" /\ pc' /= pc)
             => (pc' = "returned" /\ exit_code' = <<0>>)
        /\ (pc' = "returned" /\ pc /= "returned")
             => pc \in {"while", "load_config"}
        /\ (shutdown /\ pc = "save_metrics" /\ pc' /= pc)
             => pc' \in {"append_row", "sleep_interval"}
        /\ (shutdown /\ pc = "append_row" /\ pc' /= pc)
             => (pc' = "sleep_rest" /\ append_called')
        /\ (shutdown /\ pc \in {"sleep_rest", "sleep_interval"} /\ pc' /= pc)
             => pc' = "while" ]_vars

\* a signal that arrived before the persist step: the cycle wrote its
\* summary, appended, slept, and main() returned at the next loop check
C4_Witness ==
    /\ pc = "returned"
    /\ signal_pc = "save_metrics"
    /\ saved
    /\ append_called
    /\ exit_code = <<0>>

\* C5 (as claimed): when load_config fails, no cycle runs and the process
\* ends with a non-zero exit status.
C5_ConfigFailureExitsNonZero ==
    (config = NoConfig /\ pc /= "load_config")
        => (cycles = 0 /\ exit_code /= <<>> /\ exit_code /= <<0>>)

\* C16 (as claimed): a spreadsheet failure never keeps the cycles from
\* running; in particular, once main() is past the construction of its
\* clients without a worksheet, the process is still alive.
C16_SheetFailureNeverStopsCycles ==
    (config /= NoConfig /\ pc \notin {"load_config", "init_sheets"} /\ ~sheet)
        => (pc /= "crashed" /\ exit_code = <<>>)

\* C17 (as claimed): a call of save_metrics that wrote no file returns to
\* main(), and the cycle goes on to the spreadsheet append.
C17_SaveFailureStillAppends ==
    [][ (pc = "save_metrics" /\ pc' /= pc /\ ~saved') => pc' = "append_row" ]_vars

(***************************************************************************)
(* server_check.py : configuration and helpers                             *)
(***************************************************************************)
\* servers (lines 14-23); a name is the sequence of its characters.
servers ==
    << [name |-> <<"K", "E", "T", "L">>, ip |-> "172.24.24.146"],
       [name |-> <<"S", "M", "T", "L">>, ip |-> "172.24.179.113"],
       [name |-> <<"N", "K", "T", "L">>, ip |-> "172.24.134.79"],
       [name |-> <<"L", "R", "T", "L">>, ip |-> "172.24.61.249"],
       [name |-> <<"J", "V", "T", "L">>, ip |-> "172.24.48.115"],
       [name |-> <<"M", "K", "T", "L", "-", "1", "5">>, ip |-> "172.24.15.161"],
       [name |-> <<"M", "K", "T", "L", "-", "1", "6">>, ip |-> "172.24.137.166"],
       [name |-> <<"J", "L", "T", "L">>, ip |-> "172.24.116.111"] >>

Servers == SubSeq(servers, 1, NumServers)
ServerKeys == {Servers[i].name : i \in 1..NumServers}

\* time.sleep(120) between the first probe and the retry
GraceWait == 120

\* seconds between the timestamps of two runs: schedule starts a run 5
\* minutes after the previous one, or later when that one overran its slot
RunGaps == {310, 450}

None == <<>>

\* get_excel_filename (lines 40-42): one file per calendar day
SecondsPerDay == 86400
get_excel_filename(time) == time \div SecondsPerDay

\* the clock when main() starts: shortly before midnight, so that the runs
\* explored fall on both sides of a change of day
StartTime == SecondsPerDay - 800

\* try_ping (lines 45-59): ping3 first; a response_time that `is not None`
\* is success (a float, or ping3's False for a host error); on None or an
\* exception the system ping decides by its return code.
Ping3Outcomes == {"time", "false", "none", "raise"}
SystemPingOutcomes == {"rc0", "rc1", "raise"}
try_ping(ping3_outcome, system_outcome) ==
    IF ping3_outcome \in {"time", "false"} THEN TRUE ELSE system_outcome = "rc0"

TryPingResults ==
    {try_ping(p, q) : p \in Ping3Outcomes, q \in SystemPingOutcomes}

\* ping_server (lines 61-67) on the results of the first probe and of the
\* retry: the status, the probes made and the seconds waited.
ping_server_no_retry(first, retry) ==
    IF first THEN [status |-> "Up", probes |-> 1, waited |-> 0]
    ELSE [status |-> "Down", probes |-> 1, waited |-> 0]
ping_server(first, retry) ==
    IF first THEN [status |-> "Up", probes |-> 1, waited |-> 0]
    ELSE IF retry THEN [status |-> "Up", probes |-> 2, waited |-> GraceWait]
    ELSE [status |-> "Down", probes |-> 2, waited |-> GraceWait]

\* initialize_excel_sheet line 70: "/", "\" and ":" become "_"
sanitize_all(sheet_name) == [i \in DOMAIN sheet_name |-> "_"]
sanitize(sheet_name) ==
    [i \in DOMAIN sheet_name |->
        IF sheet_name[i] \in {"/", "\\", ":"} THEN "_" ELSE sheet_name[i]]

\* initialize_excel_sheet (lines 69-76): the workbook with the sheet created
\* if it was missing.  A sheet is the sequence of its rows below the header.
initialize_excel_sheet(wb, sheet_name) ==
    IF sanitize(sheet_name) \in DOMAIN wb
    THEN wb
    ELSE [n \in DOMAIN wb \cup {sanitize(sheet_name)} |->
             IF n \in DOMAIN wb THEN wb[n] ELSE <<>>]

\* round(duration_dt.total_seconds() / 60, 2), in hundredths of a minute
\* (seconds * 5 / 3 is never half-way between two integers)
duration_minutes(seconds) == (5 * seconds + 1) \div 3

\* line 122: if status == "Down" and not tracker["notification_sent"]
should_alert_on_change(status, tracker) ==
    status = "Down" /\ tracker.last_status = "Up"
should_alert(status, tracker) ==
    status = "Down" /\ ~tracker.notification_sent

\* line 139: if status == "Down" and last_status != "Down"
records_down_time_always(status, last_status) == status = "Down"
records_down_time(status, last_status) == status = "Down" /\ last_status /= "Down"

\* line 150: red_fill if status == "Down" else green_fill
status_fill(status) == IF status = "Down" THEN "FF0000" ELSE "00FF00"

\* lines 128-135: the tracker entry of a server seen Up after Down
recover_tracker_keeps_notification(tracker, time) ==
    [tracker EXCEPT !.last_up_time = <<time>>, !.last_down_time = None]
recover_tracker(tracker, time) ==
    [tracker EXCEPT !.last_up_time = <<time>>,
                    !.last_down_time = None,
                    !.notification_sent = FALSE]

\* lines 114-146 for one server: the tracker entry after, the row appended
\* and whether send_whatsapp_alert was called.
log_one_server(tracker, ip, status, time) ==
    LET last_status == tracker.last_status
        alert == should_alert(status, tracker)
        recovered == ~alert /\ status = "Up" /\ last_status = "Down"
        \* lines 122-137
        t1 == IF alert
              THEN [tracker EXCEPT !.notification_sent = TRUE]
              ELSE IF recovered
              THEN recover_tracker(tracker, time)
              ELSE tracker
        duration == IF recovered /\ tracker.last_down_time /= None
                    THEN <<duration_minutes(time - tracker.last_down_time[1])>>
                    ELSE <<>>
        up_time == IF ~alert /\ status = "Up" THEN t1.last_up_time ELSE <<>>
        \* lines 139-142
        t2 == IF records_down_time(status, last_status)
              THEN [t1 EXCEPT !.last_down_time = <<time>>]
              ELSE t1
        t3 == [t2 EXCEPT !.last_status = status]
    IN  [tracker |-> t3,
         alert |-> alert,
         row |-> [time |-> time, ip |-> ip, status |-> status,
                  down_time |-> <<>>, up_time |-> up_time, duration |-> duration,
                  fill |-> status_fill(status)]]

(***************************************************************************)
(* server_check.py : log_server_status, run by main() every 5 minutes      *)
(***************************************************************************)
\* the module-level state of server_check.py before main()
SCStart ==
    /\ server_status_tracker =
          [k \in ServerKeys |-> [last_status |-> "None", last_down_time |-> None,
                                 last_up_time |-> None, notification_sent |-> FALSE]]
    /\ excel_file = get_excel_filename(StartTime)
    /\ files = <<>>
    /\ workbook = <<>>
    /\ sc_time = StartTime
    /\ sc_i = 0
    /\ runs = 0
    /\ wb_loaded = <<>>
    /\ observations = [k \in ServerKeys |-> <<>>]
    /\ alerts = [k \in ServerKeys |-> <<>>]
    /\ last_delivery = <<>>
    /\ appended = [k \in ServerKeys |-> <<>>]

SCInit ==
    /\ sc_pc = "idle"
    /\ SCStart

\* lines 92-107: load the day's workbook, or start a new one (without the
\* default sheet) when it cannot be loaded, as in the first run of a day;
\* take the timestamp.
StartRun ==
    /\ sc_pc = "idle"
    /\ runs < MaxRuns
    /\ \E gap \in RunGaps :
          LET time == sc_time + gap
              file == get_excel_filename(time)
              loaded == IF file \in DOMAIN files THEN files[file] ELSE <<>>
          IN  /\ sc_time' = time
              /\ excel_file' = file
              /\ workbook' = loaded
              /\ wb_loaded' = loaded
    /\ runs' = runs + 1
    /\ sc_i' = 1
    /\ sc_pc' = "servers"
    /\ UNCHANGED <<server_status_tracker, files, observations, alerts,
                   last_delivery, appended>>
    /\ UNCHANGED <<main_vars, ping_vars, pm_vars, ext_vars, more_vars>>

\* lines 109-155: one iteration of `for server in servers`.
LogServer ==
    /\ sc_pc = "servers"
    /\ sc_i <= NumServers
    /\ \E first \in TryPingResults, retry \in TryPingResults, delivered \in BOOLEAN :
          LET server_key == Servers[sc_i].name
              ip == Servers[sc_i].ip
              ping == ping_server(first, retry)
              out == log_one_server(server_status_tracker[server_key], ip,
                                    ping.status, sc_time)
              wb == initialize_excel_sheet(workbook, server_key)
              name == sanitize(server_key)
          IN  /\ server_status_tracker' =
                    [server_status_tracker EXCEPT ![server_key] = out.tracker]
              /\ workbook' = [wb EXCEPT ![name] = Append(wb[name], out.row)]
              /\ observations' =
                    [observations EXCEPT ![server_key] =
                        Append(@, [t |-> sc_time, status |-> ping.status])]
              /\ alerts' =
                    IF out.alert
                    THEN [alerts EXCEPT ![server_key] = Append(@, sc_time)]
                    ELSE alerts
              /\ last_delivery' =
                    IF out.alert
                    THEN <<[server |-> server_key, delivered |-> delivered]>>
                    ELSE last_delivery
              /\ appended' =
                    [appended EXCEPT ![server_key] =
                        Append(@, [sheet |-> name, row |-> out.row])]
    /\ sc_i' = sc_i + 1
    /\ UNCHANGED <<sc_pc, excel_file, files, sc_time, runs, wb_loaded>>
    /\ UNCHANGED <<main_vars, ping_vars, pm_vars, ext_vars, more_vars>>

\* lines 157-164: workbook.save(excel_file).  (A save that fails is printed
\* and loses the rows of the run from the file, as a workbook that cannot be
\* loaded at the next run does.)
SaveWorkbook ==
    /\ sc_pc = "servers"
    /\ sc_i > NumServers
    /\ files' = [f \in DOMAIN files \cup {excel_file} |->
                    IF f = excel_file THEN workbook ELSE files[f]]
    /\ sc_pc' = "idle"
    /\ UNCHANGED <<server_status_tracker, excel_file, workbook, sc_time, sc_i,
                   runs, wb_loaded, observations, alerts, last_delivery,
                   appended>>
    /\ UNCHANGED <<main_vars, ping_vars, pm_vars, ext_vars, more_vars>>

(***************************************************************************)
(* server_check.py : one call of ping_server                               *)
(***************************************************************************)
ProbeOutcomes == [ping3 : Ping3Outcomes, system : SystemPingOutcomes]

PingInit ==
    /\ ping_in \in [first : ProbeOutcomes, retry : ProbeOutcomes]
    /\ ping_out = <<>>

\* no call of ping_server is being followed
PingIdle ==
    /\ ping_in = <<>>
    /\ ping_out = <<"off">>

\* lines 44-67: status = ping_server(ip)
PingServer ==
    /\ ping_out = <<>>
    /\ ping_out' = <<ping_server(try_ping(ping_in.first.ping3, ping_in.first.system),
                                 try_ping(ping_in.retry.ping3, ping_in.retry.system))>>
    /\ UNCHANGED <<ping_in, main_vars, sc_vars, pm_vars, ext_vars, more_vars>>


(***************************************************************************)
(* server_check.py : properties                                            *)
(***************************************************************************)
\* index of the first observation of the outage (maximal run of Down
\* observations) that observation k belongs to
OutageStart(obs, k) ==
    CHOOSE j \in 1..k :
        /\ \A i \in j..k : obs[i].status = "Down"
        /\ j = 1 \/ obs[j - 1].status /= "Down"

\* the observations that begin an outage
OutageStarts(obs) ==
    {k \in DOMAIN obs : obs[k].status = "Down" /\ (k = 1 \/ obs[k - 1].status = "Up")}

SheetRows(wb, title) == IF title \in DOMAIN wb THEN wb[title] ELSE <<>>

\* C6: for each server, send_whatsapp_alert is called exactly once per
\* outage, in the cycle of the outage's first Down observation (the very
\* first observation included), whatever the delivery gave.
C6_OneAlertPerOutage ==
    \A key \in ServerKeys :
        LET obs == observations[key]
            sent == alerts[key]
        IN  /\ {sent[i] : i \in DOMAIN sent} = {obs[k].t : k \in OutageStarts(obs)}
            /\ Len(sent) = Cardinality(OutageStarts(obs))

\* a server Down from its first observation on, whose only alert was not
\* delivered, and another one alerted at the start of an outage that ended
C6_Witness ==
    \E a, b \in ServerKeys :
        /\ Len(observations[b]) = 3
        /\ \A k \in 1..3 : observations[b][k].status = "Down"
        /\ Len(alerts[b]) = 1
        /\ last_delivery = <<[server |-> b, delivered |-> FALSE]>>
        /\ Len(observations[a]) = 3
        /\ observations[a][1].status = "Down"
        /\ observations[a][2].status = "Up"
        /\ observations[a][3].status = "Up"
        /\ Len(alerts[a]) = 1

\* C7: ping_server gives "Down" iff the first probe and the retry both
\* fail; a first probe that succeeds gives "Up" with no retry and no wait;
\* a first probe that fails is followed by the grace wait and one retry,
\* whose success gives "Up".
C7_DownIffBothProbesFail ==
    ping_out /= <<>> =>
        LET first == try_ping(ping_in.first.ping3, ping_in.first.system)
            retry == try_ping(ping_in.retry.ping3, ping_in.retry.system)
            r == ping_out[1]
        IN  /\ r.status \in {"Up", "Down"}
            /\ r.status = "Down" <=> (~first /\ ~retry)
            /\ first => (r.status = "Up" /\ r.probes = 1 /\ r.waited = 0)
            /\ ~first => (r.probes = 2 /\ r.waited = 120 /\ (r.status = "Up" <=> retry))

C7_Witness ==
    /\ ping_out /= <<>>
    /\ ~try_ping(ping_in.first.ping3, ping_in.first.system)
    /\ ping_out[1].status = "Up"
    /\ ping_out[1].probes = 2

\* hundredths is seconds / 60, in minutes, rounded to two decimals
IsMinutesRounded(hundredths, seconds) ==
    /\ 60 * hundredths - 100 * seconds <= 30
    /\ 100 * seconds - 60 * hundredths <= 30

\* C8: the row of a cycle in which a server goes from Down to Up holds the
\* minutes, rounded to two decimals, between this cycle's timestamp and the
\* timestamp of the first Down observation of the outage; every other row
\* has an empty duration; while a server is Down the stored down-timestamp
\* is that of the outage's first Down observation.
C8_DurationOnRecovery ==
    \A key \in ServerKeys :
        LET obs == observations[key]
            rows == appended[key]
            n == Len(obs)
        IN  /\ Len(rows) = n
            /\ \A k \in 1..n :
                  IF k > 1 /\ obs[k].status = "Up" /\ obs[k - 1].status = "Down"
                  THEN /\ rows[k].row.duration /= <<>>
                       /\ IsMinutesRounded(rows[k].row.duration[1],
                                           obs[k].t - obs[OutageStart(obs, k - 1)].t)
                  ELSE rows[k].row.duration = <<>>
            /\ (n > 0 /\ obs[n].status = "Down")
                  => server_status_tracker[key].last_down_time
                        = <<obs[OutageStart(obs, n)].t>>

\* an outage of 450 seconds gives 7.5, and one of two Down observations
\* is measured from the first of them
C8_Witness ==
    \E a, b \in ServerKeys :
        /\ Len(observations[a]) = 2
        /\ observations[a][2].t - observations[a][1].t = 450
        /\ appended[a][2].row.duration = <<750>>
        /\ Len(observations[b]) = 3
        /\ observations[b][1].status = "Down"
        /\ observations[b][2].status = "Down"
        /\ observations[b][3].status = "Up"
        /\ appended[b][3].row.duration = <<1267>>

\* C9: during a run every server already processed has exactly one row
\* more than the loaded workbook had in the sheet titled with its name, the
\* others none more; that row is the one built in this run; the workbook
\* has no other sheet; a row's status cell is red iff its status is Down and
\* green otherwise.
C9_OneRowPerServerOwnSheet ==
    sc_pc = "servers" =>
        /\ DOMAIN workbook \subseteq ServerKeys
        /\ \A i \in 1..NumServers :
              LET key == Servers[i].name
                  rows == SheetRows(workbook, key)
                  before == SheetRows(wb_loaded, key)
              IN  /\ Len(rows) = Len(before) + (IF i < sc_i THEN 1 ELSE 0)
                  /\ SubSeq(rows, 1, Len(before)) = before
                  /\ i < sc_i =>
                        /\ rows[Len(rows)].time = sc_time
                        /\ rows[Len(rows)].status
                              = observations[key][Len(observations[key])].status
                  /\ \A k \in DOMAIN rows :
                        /\ rows[k].ip = Servers[i].ip
                        /\ rows[k].fill = "FF0000" <=> rows[k].status = "Down"
                        /\ rows[k].fill = "00FF00" <=> rows[k].status /= "Down"

\* the end of a run that added a red row to one sheet and a green row to
\* another, each below a row of an earlier run
C9_Witness ==
    /\ sc_pc = "servers"
    /\ sc_i > NumServers
    /\ \E a, b \in ServerKeys :
          /\ Len(SheetRows(workbook, a)) = 2
          /\ Len(SheetRows(workbook, b)) = 2
          /\ workbook[a][2].fill = "FF0000"
          /\ workbook[b][2].fill = "00FF00"
          /\ workbook[a][2].status = workbook[a][1].status

(***************************************************************************)
(* Shinobi.py : process_monitors                                           *)
(***************************************************************************)
\* Monitor records of the API response; "absent" is a key the record lacks.
MonitorRecords ==
    {[mid |-> m, name |-> v[1], mode |-> v[2], status |-> v[3]] :
        m \in {"A", "B", "X"},
        v \in {<<"cam", "record", "Recording">>,
               <<"cam", "record", "Died">>,
               <<"absent", "stop", "absent">>}}

\* IDs a configuration may track
ConfigIds == {"A", "B"}

SeqsUpTo(S, n) == UNION {[1..k -> S] : k \in 0..n}

\* monitors_data: a list of records, None, or a JSON object with ok true
\* (get_all_monitors returns such a body as it is)
MonitorsData ==
    [kind : {"list"}, items : SeqsUpTo(MonitorRecords, MaxRecords)]
        \cup {[kind |-> "None", items |-> <<>>], [kind |-> "dict", items |-> <<>>]}

\* the readings of the clock explored, in the order of time
ClockReadings == <<[date |-> "2024-01-01", time |-> "10:00:00"],
                   [date |-> "2024-01-01", time |-> "10:05:00"]>>
Clocks == {ClockReadings[i] : i \in DOMAIN ClockReadings}
ClockIndex(clock) == CHOOSE i \in DOMAIN ClockReadings : ClockReadings[i] = clock

\* monitor.get(key, "Unknown")
get_or_unknown(value) == IF value = "absent" THEN "Unknown" ELSE value

InList(x, list) == \E i \in DOMAIN list : list[i] = x

\* line 312: monitor_id in config.monitor_ids and monitor_id not in seen_ids
is_tracked_any(monitor_id, monitor_ids, seen_ids) == InList(monitor_id, monitor_ids)
is_tracked_new(monitor_id, monitor_ids, seen_ids) ==
    InList(monitor_id, monitor_ids) /\ monitor_id \notin seen_ids

\* lines 314-322: the status entry of one record
monitor_status(monitor) ==
    [id |-> monitor.mid,
     name |-> get_or_unknown(monitor.name),
     recording |-> (monitor.mode = "record"),
     operational |-> (monitor.mode = "record" /\ monitor.status = "Recording"),
     mode |-> get_or_unknown(monitor.mode),
     status |-> get_or_unknown(monitor.status)]

\* lines 307-335: the loop over monitors_data, after its first k records
RECURSIVE scan_monitors(_, _, _)
scan_monitors(items, monitor_ids, k) ==
    IF k = 0
    THEN [seen_ids |-> {}, monitor_statuses |-> <<>>]
    ELSE LET before == scan_monitors(items, monitor_ids, k - 1)
             monitor == items[k]
         IN  IF is_tracked_new(monitor.mid, monitor_ids, before.seen_ids)
             THEN [seen_ids |-> before.seen_ids \cup {monitor.mid},
                   monitor_statuses |->
                       Append(before.monitor_statuses, monitor_status(monitor))]
             ELSE before

\* line 338: [mid for mid in config.monitor_ids if mid not in seen_ids]
RECURSIVE missing_of(_, _)
missing_of(monitor_ids, seen_ids) ==
    IF monitor_ids = <<>>
    THEN <<>>
    ELSE IF Head(monitor_ids) \in seen_ids
    THEN missing_of(Tail(monitor_ids), seen_ids)
    ELSE <<Head(monitor_ids)>> \o missing_of(Tail(monitor_ids), seen_ids)

\* line 344: sum(1 for status in monitor_statuses if status["operational"])
count_operational(monitor_statuses) ==
    Cardinality({i \in DOMAIN monitor_statuses : monitor_statuses[i].operational})

\* lines 345-347: round(recording_count / total_cameras * 100, 2), in
\* hundredths of a percent; 0.0 when nothing is tracked.  (No quotient is
\* half-way between two hundredths for fewer than 64 cameras.)
percentage_recording_full_when_empty(recording_count, total_cameras) ==
    IF total_cameras > 0
    THEN (20000 * recording_count + total_cameras) \div (2 * total_cameras)
    ELSE 10000
percentage_recording(recording_count, total_cameras) ==
    IF total_cameras > 0
    THEN (20000 * recording_count + total_cameras) \div (2 * total_cameras)
    ELSE 0

\* line 359: "Yes" if percentage_recording >= 75.0 else "No"
ThresholdPercent == 75
threshold_met(percentage) == IF percentage >= ThresholdPercent * 100 THEN "Yes" ELSE "No"

\* process_monitors (lines 299-363).  An empty metrics dict is <<>>, a
\* filled one <<metrics>>; the early return has no "missing_monitors" key.
process_monitors(monitors_data, monitor_ids, clock) ==
    IF monitors_data.kind /= "list" \/ monitors_data.items = <<>>
    THEN [monitors |-> <<>>, metrics |-> <<>>]
    ELSE LET scan == scan_monitors(monitors_data.items, monitor_ids,
                                   Len(monitors_data.items))
             total_cameras == Len(monitor_ids)
             recording_count == count_operational(scan.monitor_statuses)
             percentage == percentage_recording(recording_count, total_cameras)
         IN  [monitors |-> scan.monitor_statuses,
              metrics |-> <<[date |-> clock.date,
                             time |-> clock.time,
                             total_cameras |-> total_cameras,
                             recording |-> recording_count,
                             not_recording |-> total_cameras - recording_count,
                             percentage_recording |-> percentage,
                             threshold_met |-> threshold_met(percentage)]>>,
              missing_monitors |-> missing_of(monitor_ids, scan.seen_ids)]

PMInit ==
    /\ pm_data \in MonitorsData
    /\ pm_ids \in SeqsUpTo(ConfigIds, MaxIds)
    /\ pm_clock \in Clocks
    /\ pm_result = <<>>
    /\ pm_result2 = <<>>

\* no call of process_monitors is being followed
PMIdle ==
    /\ pm_data = <<>>
    /\ pm_ids = <<>>
    /\ pm_clock = <<>>
    /\ pm_result = <<"off">>
    /\ pm_result2 = <<"off">>

\* line 480: processed_data = process_monitors(monitors_data, config, logger)
ProcessMonitors ==
    /\ pm_result = <<>>
    /\ pm_result' = <<process_monitors(pm_data, pm_ids, pm_clock)>>
    /\ UNCHANGED <<pm_data, pm_ids, pm_clock, pm_result2>>
    /\ UNCHANGED <<main_vars, sc_vars, ping_vars, ext_vars, more_vars>>

\* line 480 in a later cycle whose fetch gave the same records: the same
\* arguments, the clock at or after the first call's reading
ProcessMonitorsAgain ==
    /\ pm_result /= <<>>
    /\ pm_result2 = <<>>
    /\ \E clock \in Clocks :
          /\ ClockIndex(clock) >= ClockIndex(pm_clock)
          /\ pm_result2' = <<process_monitors(pm_data, pm_ids, clock)>>
    /\ UNCHANGED <<pm_data, pm_ids, pm_clock, pm_result>>
    /\ UNCHANGED <<main_vars, sc_vars, ping_vars, ext_vars, more_vars>>

\* C10: for a non-empty list of records no two entries of monitors carry the
\* same ID; every entry is the status of the first record with its ID and
\* that ID is tracked; every tracked ID that occurs in the records has its
\* entry; total_cameras is the length of config.monitor_ids.
C10_FirstRecordPerTrackedId ==
    (pm_result /= <<>> /\ pm_data.kind = "list" /\ pm_data.items /= <<>>) =>
        LET items == pm_data.items
            monitors == pm_result[1].monitors
            First(id) == CHOOSE k \in DOMAIN items :
                            /\ items[k].mid = id
                            /\ \A j \in 1..(k - 1) : items[j].mid /= id
        IN  /\ \A i, j \in DOMAIN monitors :
                  monitors[i].id = monitors[j].id => i = j
            /\ \A i \in DOMAIN monitors :
                  /\ InList(monitors[i].id, pm_ids)
                  /\ InList(monitors[i].id, [k \in DOMAIN items |-> items[k].mid])
                  /\ monitors[i] = monitor_status(items[First(monitors[i].id)])
            /\ \A k \in DOMAIN items :
                  InList(items[k].mid, pm_ids)
                      => \E i \in DOMAIN monitors : monitors[i].id = items[k].mid
            /\ pm_result[1].metrics[1].total_cameras = Len(pm_ids)

\* two different records with the tracked ID "A" around an untracked one:
\* one entry, built from the first
C10_Witness ==
    /\ pm_result /= <<>>
    /\ pm_ids = <<"A", "B">>
    /\ pm_data.kind = "list"
    /\ Len(pm_data.items) = 3
    /\ pm_data.items[1].mid = "A"
    /\ pm_data.items[2].mid = "X"
    /\ pm_data.items[3].mid = "A"
    /\ pm_data.items[1].status /= pm_data.items[3].status
    /\ Len(pm_result[1].monitors) = 1
    /\ pm_result[1].monitors[1].status = pm_data.items[1].status
    /\ pm_result[1].metrics[1].total_cameras = 2

\* the configured IDs that occur in no record, in configured order
NotOccurring(monitor_ids, items) ==
    SelectSeq(monitor_ids, LAMBDA id : \A k \in DOMAIN items : items[k].mid /= id)

\* C12 (as claimed): for every list of records, the empty one included, the
\* result has a missing_monitors entry and it is the configured IDs that
\* occur in no record, in configured order.
C12_MissingExactlyNotOccurring ==
    (pm_result /= <<>> /\ pm_data.kind = "list") =>
        /\ "missing_monitors" \in DOMAIN pm_result[1]
        /\ pm_result[1].missing_monitors = NotOccurring(pm_ids, pm_data.items)

\* C14 (as claimed): two calls with the same records and the same
\* configuration return the same summary, whenever they are made.
C14_SameInputsSameSummary ==
    (pm_result /= <<>> /\ pm_result2 /= <<>>) => pm_result2 = pm_result

\* C15: with no tracked ID and a non-empty list of records the call returns
\* filled metrics whose percentage_recording is 0.0 (total_cameras 0,
\* recording 0, threshold not met) and no entry of monitors.
C15_NoTrackedIdsZeroPercent ==
    (pm_result /= <<>> /\ pm_ids = <<>> /\ pm_data.kind = "list"
        /\ pm_data.items /= <<>>) =>
        /\ pm_result[1].metrics /= <<>>
        /\ pm_result[1].metrics[1].percentage_recording = 0
        /\ pm_result[1].metrics[1].total_cameras = 0
        /\ pm_result[1].metrics[1].recording = 0
        /\ pm_result[1].metrics[1].threshold_met = "No"
        /\ pm_result[1].monitors = <<>>

\* three records, one of them recording, and nothing tracked
C15_Witness ==
    /\ pm_result /= <<>>
    /\ pm_ids = <<>>
    /\ pm_data.kind = "list"
    /\ Len(pm_data.items) = 3
    /\ \E k \in 1..3 : pm_data.items[k].status = "Recording"
    /\ pm_result[1].metrics /= <<>>
    /\ pm_result[1].metrics[1].percentage_recording = 0


(***************************************************************************)
(* shinobi_deep.py : process_monitors                                      *)
(***************************************************************************)
\* Monitor records of the API response; "absent" is a key the record lacks
\* (monitor["mid"] on a record without "mid" raises KeyError).
DeepMonitorRecords ==
    {[mid |-> m, name |-> v[1], mode |-> v[2], status |-> v[3]] :
        m \in {"A", "B", "absent"},
        v \in {<<"cam", "record", "Recording">>,
               <<"cam", "record", "Died">>,
               <<"absent", "stop", "absent">>}}

\* monitors_data: a list of records, or None (get_all_monitors gives data
\* only when the body is a list)
DeepMonitorsData ==
    [kind : {"list"}, items : SeqsUpTo(DeepMonitorRecords, MaxRecords)]
        \cup {[kind |-> "None", items |-> <<>>]}

\* Config.validate_threshold (lines 53-57), on hundredths of a percent
validate_threshold(value) == 0 <= value /\ value <= 10000

\* the values of THRESHOLD_PERCENTAGE explored, before validation
ThresholdInputs == {-2500, 0, 5000, 7500, 10000, 12500}

\* lines 296-303: the status entry of one record
deep_monitor_status(monitor) ==
    [id |-> monitor.mid,
     name |-> get_or_unknown(monitor.name),
     recording |-> (monitor.mode = "record"),
     operational |-> (monitor.mode = "record" /\ monitor.status = "Recording"),
     mode |-> get_or_unknown(monitor.mode),
     status |-> get_or_unknown(monitor.status)]

\* list.remove(x) where x is in the list: the first occurrence goes
RECURSIVE list_remove(_, _)
list_remove(list, x) ==
    IF list = <<>>
    THEN <<>>
    ELSE IF Head(list) = x
    THEN Tail(list)
    ELSE <<Head(list)>> \o list_remove(Tail(list), x)

\* lines 283-309: the loop over monitors_data, after its first k records
RECURSIVE deep_scan_monitors(_, _, _)
deep_scan_monitors(items, monitor_ids, k) ==
    IF k = 0
    THEN [monitor_statuses |-> <<>>, missing_monitors |-> monitor_ids, recording |-> 0]
    ELSE LET before == deep_scan_monitors(items, monitor_ids, k - 1)
             monitor == items[k]
             status == deep_monitor_status(monitor)
         IN  IF monitor.mid = "absent"
             THEN before                                   \* KeyError, logged
             ELSE IF ~InList(monitor.mid, monitor_ids)
             THEN before                                   \* continue
             ELSE [monitor_statuses |-> Append(before.monitor_statuses, status),
                   missing_monitors |->
                       IF InList(monitor.mid, before.missing_monitors)
                       THEN list_remove(before.missing_monitors, monitor.mid)
                       ELSE before.missing_monitors,
                   recording |->
                       before.recording + (IF status.operational THEN 1 ELSE 0)]

\* lines 312-315: round(recording / total_cameras * 100, 2), in hundredths
\* of a percent
deep_percentage(recording, total_cameras) ==
    (20000 * recording + total_cameras) \div (2 * total_cameras)

\* process_monitors (lines 265-318); threshold in hundredths of a percent
deep_process_monitors(monitors_data, monitor_ids, threshold, clock) ==
    LET total_cameras == Len(monitor_ids)
        metrics == [date |-> clock.date,
                    time |-> clock.time,
                    total_cameras |-> total_cameras,
                    recording |-> 0,
                    not_recording |-> total_cameras,
                    percentage_recording |-> 0,
                    threshold_met |-> "No"]
    IN  IF monitors_data.kind /= "list"
        THEN [monitors |-> <<>>, metrics |-> metrics, missing_monitors |-> monitor_ids]
        ELSE LET scan == deep_scan_monitors(monitors_data.items, monitor_ids,
                                            Len(monitors_data.items))
                 counted == [metrics EXCEPT
                                !.recording = scan.recording,
                                !.not_recording = total_cameras - scan.recording]
                 percentage == deep_percentage(scan.recording, total_cameras)
             IN  [monitors |-> scan.monitor_statuses,
                  metrics |->
                      IF total_cameras > 0
                      THEN [counted EXCEPT
                               !.percentage_recording = percentage,
                               !.threshold_met =
                                   IF percentage >= threshold THEN "Yes" ELSE "No"]
                      ELSE counted,
                  missing_monitors |-> scan.missing_monitors]

DPInit ==
    /\ dp_data \in DeepMonitorsData
    /\ dp_ids \in SeqsUpTo(ConfigIds, MaxIds)
    /\ dp_threshold \in {t \in ThresholdInputs : validate_threshold(t)}
    /\ dp_clock = [date |-> "2024-01-01", time |-> "10:00:00"]
    /\ dp_result = <<>>

\* no call of shinobi_deep.py's process_monitors is being followed
DPIdle ==
    /\ dp_data = <<>>
    /\ dp_ids = <<>>
    /\ dp_threshold = 0
    /\ dp_clock = <<>>
    /\ dp_result = <<"off">>

\* line 391: processed_data = process_monitors(monitors_data, config)
DeepProcessMonitors ==
    /\ dp_result = <<>>
    /\ dp_result' = <<deep_process_monitors(dp_data, dp_ids, dp_threshold, dp_clock)>>
    /\ UNCHANGED <<dp_data, dp_ids, dp_threshold, dp_clock>>
    /\ UNCHANGED <<main_vars, sc_vars, ping_vars, pm_vars, df_vars, dm_vars, gm_vars, more_vars>>

\* C11 (as claimed): whatever the response, no two entries of monitors carry
\* the same ID, recording is at most total_cameras, not_recording is not
\* negative and percentage_recording is at most 100.
C11_EachIdCountedOnce ==
    dp_result /= <<>> =>
        LET monitors == dp_result[1].monitors
            metrics == dp_result[1].metrics
        IN  /\ \A i, j \in DOMAIN monitors :
                  monitors[i].id = monitors[j].id => i = j
            /\ metrics.recording <= metrics.total_cameras
            /\ metrics.not_recording >= 0
            /\ metrics.percentage_recording <= 10000

\* C13 (as claimed): for every tracked-ID list, every input and every valid
\* threshold, threshold_met is "Yes" iff percentage_recording is at least
\* the threshold.
C13_ThresholdMetIffAtLeast ==
    dp_result /= <<>> =>
        LET metrics == dp_result[1].metrics
        IN  metrics.threshold_met = "Yes"
                <=> metrics.percentage_recording >= dp_threshold


(***************************************************************************)
(* shinobi_deep.py : ShinobiAPI.get_all_monitors                           *)
(***************************************************************************)
\* the parsed body of a 2xx answer: a list of records, an object with ok
\* true, an object whose ok is false or absent, any other JSON value (null,
\* a string, a number), or text that is no JSON
NoBody == [kind |-> "none", items |-> <<>>]
FetchBodies ==
    [kind : {"list"}, items : SeqsUpTo(DeepMonitorRecords, MaxBodyLen)]
        \cup {[kind |-> k, items |-> <<>>] :
                 k \in {"dict_ok", "dict_not_ok", "other_json", "unparsable"}}

\* what session.get and raise_for_status raise.  ConnectTimeout is both a
\* ConnectionError and a Timeout; RetryError (the session's Retry gave up on
\* a status of status_forcelist) is a RequestException that is none of the
\* classes named in the except clauses.
FetchExceptions == {"Timeout", "ConnectTimeout", "ConnectionError", "HTTPError",
                    "RetryError"}

\* what one call meets
FetchResponses ==
    {[exception |-> e, body |-> NoBody] : e \in FetchExceptions}
        \cup {[exception |-> "none", body |-> b] : b \in FetchBodies}

\* lines 155-169: the except clause that catches an exception, by the
\* reason it returns; "raise" if no clause does
except_clause_without_catch_all(exception) ==
    CASE exception \in {"Timeout", "ConnectTimeout"} -> "Request timed out"
      [] exception = "ConnectionError" -> "Connection failed"
      [] exception = "HTTPError" -> "HTTP error"
      [] exception \in {"JSONDecodeError", "ValueError"} -> "Response parsing failed"
      [] OTHER -> "raise"
except_clause(exception) ==
    CASE exception \in {"Timeout", "ConnectTimeout"} -> "Request timed out"
      [] exception = "ConnectionError" -> "Connection failed"
      [] exception = "HTTPError" -> "HTTP error"
      [] exception \in {"JSONDecodeError", "ValueError"} -> "Response parsing failed"
      [] OTHER -> "Unexpected error"

\* line 150: if not isinstance(data, list)
unexpected_format(body) == body.kind /= "list"

\* get_all_monitors (lines 132-169) on what the call meets, at clock
\* reading time, with last_successful_fetch being last: whether it raised,
\* the pair it returned and last_successful_fetch afterwards
deep_get_all_monitors(response, time, last) ==
    LET failed(reason) == [raised |-> reason = "raise", data |-> None,
                           reason |-> reason, last_successful_fetch |-> last]
        body == response.body
    IN  IF response.exception /= "none"
        THEN failed(except_clause(response.exception))      \* lines 139-143
        ELSE IF body.kind = "unparsable"
        THEN failed(except_clause("JSONDecodeError"))       \* line 145
        ELSE IF body.kind = "dict_not_ok"
        THEN failed("API error")                            \* lines 146-148
        ELSE IF unexpected_format(body)
        THEN failed("Unexpected API response format")       \* lines 150-151
        ELSE [raised |-> FALSE, data |-> <<body>>, reason |-> "success",
              last_successful_fetch |-> <<time>>]           \* lines 153-154

DFStart ==
    /\ last_successful_fetch = None
    /\ fetch_clock = Epoch
    /\ fetches = 0
    /\ fetch_response = <<>>
    /\ fetch_result = <<>>

\* ShinobiAPI.__init__ (lines 112-116)
DFInit ==
    /\ DFStart

\* no ShinobiAPI of shinobi_deep.py exists
DFIdle ==
    /\ last_successful_fetch = <<"off">>
    /\ fetch_clock = Epoch
    /\ fetches = 0
    /\ fetch_response = <<>>
    /\ fetch_result = <<>>

\* line 390: monitors_data, api_status = api.get_all_monitors(); the clock
\* has moved on since the previous call
DeepGetAllMonitors ==
    /\ fetches < MaxFetches
    /\ \E response \in FetchResponses :
          LET time == fetch_clock + 1
              out == deep_get_all_monitors(response, time, last_successful_fetch)
          IN  /\ fetch_clock' = time
              /\ fetch_response' = response
              /\ fetch_result' = <<[raised |-> out.raised, data |-> out.data,
                                    reason |-> out.reason]>>
              /\ last_successful_fetch' = out.last_successful_fetch
    /\ fetches' = fetches + 1
    /\ UNCHANGED <<main_vars, sc_vars, ping_vars, pm_vars, dp_vars, dm_vars, gm_vars, more_vars>>

\* C19: a call of get_all_monitors never raises; when the body is a list it
\* returns (that list, "success") and sets last_successful_fetch to the
\* time of the call; for a timeout, a connection error, an HTTP error
\* status, an unparsable body, an object whose ok is not true and any other
\* body that is no list it returns (None, reason) with a reason other than
\* "success" and leaves last_successful_fetch as it was.
C19_FetchNeverRaises ==
    [][ fetches' = fetches + 1 =>
          LET response == fetch_response'
              out == fetch_result'[1]
              is_list == response.exception = "none" /\ response.body.kind = "list"
          IN  /\ ~out.raised
              /\ is_list =>
                    /\ out.data = <<response.body>>
                    /\ out.reason = "success"
                    /\ last_successful_fetch' = <<fetch_clock'>>
              /\ ~is_list =>
                    /\ out.data = None
                    /\ out.reason \notin {"success", "raise"}
                    /\ last_successful_fetch' = last_successful_fetch ]_vars

\* a fetch that gave a list, then one that met a JSON object with ok true:
\* (None, "Unexpected API response format"), the time of the first kept
C19_Witness ==
    /\ fetches = 2
    /\ fetch_response.exception = "none"
    /\ fetch_response.body.kind = "dict_ok"
    /\ fetch_result = <<[raised |-> FALSE, data |-> None,
                         reason |-> "Unexpected API response format"]>>
    /\ last_successful_fetch = <<Epoch + 1>>


(***************************************************************************)
(* shinobi_deep.py : main()                                                *)
(***************************************************************************)
\* line 375: max_consecutive_errors = 5
max_consecutive_errors == 5

\* the state of main() before its first statement
DMStart ==
    /\ dm_shutdown = FALSE
    /\ consecutive_errors = 0
    /\ dm_sheet = FALSE
    /\ dm_exit_code = <<>>
    /\ dm_cycles = 0
    /\ dm_fetch = "-"
    /\ dm_saved = FALSE
    /\ dm_appended = FALSE

DMInit ==
    /\ dm_pc = "init"
    /\ DMStart

\* shinobi_deep.py is not running
DMIdle ==
    /\ dm_pc = "off"
    /\ DMStart

\* lines 368-385: load_config, setup_logging and the clients.  A
\* configuration that fails validation ends the process by sys.exit(1)
\* (line 263); any other exception of load_config or setup_logging reaches
\* the handler of line 428, whose logger is not yet bound, and the process
\* ends with a traceback (exit status 1).  GoogleSheetsClient swallows a
\* failed initialisation and is left without a sheet.
DeepStart ==
    /\ dm_pc = "init"
    /\ \E config_ok \in BOOLEAN, sheet_ok \in BOOLEAN :
          IF config_ok
          THEN dm_pc' = "while" /\ dm_sheet' = sheet_ok /\ dm_exit_code' = dm_exit_code
          ELSE dm_pc' = "exited" /\ dm_sheet' = FALSE /\ dm_exit_code' = <<1>>
    /\ UNCHANGED <<dm_shutdown, consecutive_errors, dm_cycles, dm_fetch, dm_saved,
                   dm_appended>>
    /\ UNCHANGED <<main_vars, sc_vars, ping_vars, pm_vars, dp_vars, df_vars, gm_vars, more_vars>>

\* lines 386-387: while not shutdown; cycle_start = time.time().  After the
\* loop main() returns (exit status 0).
DeepLoopCheck ==
    /\ dm_pc = "while"
    /\ IF ~dm_shutdown
       THEN /\ dm_cycles < MaxDeepCycles
            /\ dm_pc' = "fetch"
            /\ dm_cycles' = dm_cycles + 1
            /\ dm_fetch' = "-"
            /\ dm_saved' = FALSE
            /\ dm_appended' = FALSE
            /\ dm_exit_code' = dm_exit_code
       ELSE /\ dm_pc' = "stopped"
            /\ dm_exit_code' = <<0>>
            /\ UNCHANGED <<dm_cycles, dm_fetch, dm_saved, dm_appended>>
    /\ UNCHANGED <<dm_shutdown, consecutive_errors, dm_sheet>>
    /\ UNCHANGED <<main_vars, sc_vars, ping_vars, pm_vars, dp_vars, df_vars, gm_vars, more_vars>>

\* lines 390-391: get_all_monitors gives (None, reason) or (list, "success")
\* and never raises; process_monitors returns filled metrics for both, or
\* raises on a list whose items are no objects ("malformed": monitor["mid"]
\* is a TypeError, not the KeyError it catches), which the handler of lines
\* 414-419 counts.
DeepFetch ==
    /\ dm_pc = "fetch"
    /\ \E result \in {"none", "list", "malformed"} :
          /\ dm_fetch' = result
          /\ IF result = "malformed"
             THEN /\ consecutive_errors' = consecutive_errors + 1
                  /\ dm_shutdown' =
                        (dm_shutdown \/ consecutive_errors + 1 >= max_consecutive_errors)
                  /\ dm_pc' = "sleep"
             ELSE /\ dm_pc' = "save_metrics"
                  /\ UNCHANGED <<consecutive_errors, dm_shutdown>>
    /\ UNCHANGED <<dm_sheet, dm_exit_code, dm_cycles, dm_saved, dm_appended>>
    /\ UNCHANGED <<main_vars, sc_vars, ping_vars, pm_vars, dp_vars, df_vars, gm_vars, more_vars>>

\* line 394, save_metrics (lines 320-343): the file is written, or the
\* failure is logged and "" returned; lines 397-407: the append is tried
\* only when the client has a sheet.
DeepSaveMetrics ==
    /\ dm_pc = "save_metrics"
    /\ \E written \in BOOLEAN : dm_saved' = written
    /\ dm_pc' = IF dm_sheet THEN "append_row" ELSE "end_cycle"
    /\ UNCHANGED <<dm_shutdown, consecutive_errors, dm_sheet, dm_exit_code,
                   dm_cycles, dm_fetch, dm_appended>>
    /\ UNCHANGED <<main_vars, sc_vars, ping_vars, pm_vars, dp_vars, df_vars, gm_vars, more_vars>>

\* line 406, append_row (lines 201-228): (True, "Success") or, after its
\* attempts, (False, reason); it catches every exception.
DeepAppendRow ==
    /\ dm_pc = "append_row"
    /\ \E success \in BOOLEAN : dm_appended' = success
    /\ dm_pc' = "end_cycle"
    /\ UNCHANGED <<dm_shutdown, consecutive_errors, dm_sheet, dm_exit_code,
                   dm_cycles, dm_fetch, dm_saved>>
    /\ UNCHANGED <<main_vars, sc_vars, ping_vars, pm_vars, dp_vars, df_vars, gm_vars, more_vars>>

\* lines 410-412: print_metrics; consecutive_errors = 0
DeepEndCycle ==
    /\ dm_pc = "end_cycle"
    /\ consecutive_errors' = 0
    /\ dm_pc' = "sleep"
    /\ UNCHANGED <<dm_shutdown, dm_sheet, dm_exit_code, dm_cycles, dm_fetch,
                   dm_saved, dm_appended>>
    /\ UNCHANGED <<main_vars, sc_vars, ping_vars, pm_vars, dp_vars, df_vars, gm_vars, more_vars>>

\* lines 422-425: when the cycle took less than update_interval the sleep
\* expression calls random.random(), and shinobi_deep.py never imports
\* random: the NameError leaves the loop, is logged by the handler of line
\* 428 and the process ends by sys.exit(1).  A cycle that took update_interval
\* or longer goes on without sleeping.
DeepSleep ==
    /\ dm_pc = "sleep"
    /\ \E remainder \in BOOLEAN :
          IF remainder
          THEN dm_pc' = "exited" /\ dm_exit_code' = <<1>>
          ELSE dm_pc' = "while" /\ dm_exit_code' = dm_exit_code
    /\ UNCHANGED <<dm_shutdown, consecutive_errors, dm_sheet, dm_cycles, dm_fetch,
                   dm_saved, dm_appended>>
    /\ UNCHANGED <<main_vars, sc_vars, ping_vars, pm_vars, dp_vars, df_vars, gm_vars, more_vars>>

\* lines 377-383, signal_handler
DeepSignalHandler ==
    /\ dm_pc \in {"while", "fetch", "save_metrics", "append_row", "end_cycle", "sleep"}
    /\ dm_shutdown' = TRUE
    /\ UNCHANGED <<dm_pc, consecutive_errors, dm_sheet, dm_exit_code, dm_cycles,
                   dm_fetch, dm_saved, dm_appended>>
    /\ UNCHANGED <<main_vars, sc_vars, ping_vars, pm_vars, dp_vars, df_vars, gm_vars, more_vars>>

\* C18 (as claimed): a cycle whose get_all_monitors gave no data writes no
\* summary file and appends no spreadsheet row, and the loop goes on to
\* the next cycle (the process is not ended by that cycle).
C18_FailedFetchNoSummary ==
    dm_fetch = "none" => (~dm_saved /\ ~dm_appended /\ dm_pc /= "exited")

\* C21 (as claimed): while no signal has arrived and the consecutive-error
\* limit has not been reached (shutdown is still false), the process does
\* not end after a cycle that completed without error: the cycle is
\* followed by the sleep and the next loop test.
C21_KeepsCycling ==
    (dm_cycles > 0 /\ ~dm_shutdown /\ consecutive_errors = 0)
        => dm_pc \notin {"exited", "stopped"}


(***************************************************************************)
(* optimized_shinobi_grok.py : main()                                      *)
(***************************************************************************)
\* the state of main() before its first statement
GMStart ==
    /\ gm_shutdown = FALSE
    /\ gm_sheet = FALSE
    /\ gm_exit_code = <<>>
    /\ gm_fetches = 0
    /\ gm_slept = FALSE
    /\ gm_saved = FALSE
    /\ gm_appended = FALSE

GMInit ==
    /\ gm_pc = "init"
    /\ GMStart

\* optimized_shinobi_grok.py is not running
GMIdle ==
    /\ gm_pc = "off"
    /\ GMStart

\* lines 315-336: load_config (on any exception main() prints and returns);
\* the clients; GoogleSheetsClient logs a failed initialisation and is left
\* without a sheet.
GrokStart ==
    /\ gm_pc = "init"
    /\ \E config_ok \in BOOLEAN, sheet_ok \in BOOLEAN :
          IF config_ok
          THEN gm_pc' = "while" /\ gm_sheet' = sheet_ok /\ gm_exit_code' = gm_exit_code
          ELSE gm_pc' = "returned" /\ gm_sheet' = FALSE /\ gm_exit_code' = <<0>>
    /\ UNCHANGED <<gm_shutdown, gm_fetches, gm_slept, gm_saved, gm_appended>>
    /\ UNCHANGED <<main_vars, sc_vars, ping_vars, pm_vars, dp_vars, df_vars, dm_vars, more_vars>>

\* line 338: while not shutdown
GrokLoopCheck ==
    /\ gm_pc = "while"
    /\ IF ~gm_shutdown
       THEN gm_pc' = "fetch" /\ gm_exit_code' = gm_exit_code
       ELSE gm_pc' = "returned" /\ gm_exit_code' = <<0>>
    /\ UNCHANGED <<gm_shutdown, gm_sheet, gm_fetches, gm_slept, gm_saved, gm_appended>>
    /\ UNCHANGED <<main_vars, sc_vars, ping_vars, pm_vars, dp_vars, df_vars, dm_vars, more_vars>>

\* lines 340-347: the fetch and process_monitors.  get_all_monitors gives
\* None (a request error, or an object whose ok is not true): line 344
\* `continue` goes straight back to the loop test.  It gives a non-empty
\* list ("list"), or a body process_monitors answers with empty metrics
\* ("empty"), or it raises (tenacity's RetryError after a body that is no
\* JSON; process_monitors on a malformed record), which the handler of line
\* 366 logs before sleeping update_interval.
GrokFetch ==
    /\ gm_pc = "fetch"
    /\ gm_fetches < MaxGrokFetches
    /\ \E result \in {"none", "list", "empty", "raise"} :
          gm_pc' = CASE result = "none" -> "while"
                     [] result = "list" -> "save_metrics"
                     [] result = "empty" -> "sleep_rest"
                     [] OTHER -> "sleep_interval"
    /\ gm_fetches' = gm_fetches + 1
    /\ gm_slept' = FALSE
    /\ gm_saved' = FALSE
    /\ gm_appended' = FALSE
    /\ UNCHANGED <<gm_shutdown, gm_sheet, gm_exit_code>>
    /\ UNCHANGED <<main_vars, sc_vars, ping_vars, pm_vars, dp_vars, df_vars, dm_vars, more_vars>>

\* line 348, save_metrics (lines 282-292): the file is written; or open/dump
\* fails and "" is returned; or os.makedirs fails, the handler's message
\* reads the unassigned output_path and the UnboundLocalError reaches the
\* handler of line 366.
GrokSaveMetrics ==
    /\ gm_pc = "save_metrics"
    /\ \E outcome \in {"written", "write_error", "makedirs_error"} :
          /\ gm_saved' = (outcome = "written")
          /\ gm_pc' = IF outcome = "makedirs_error" THEN "sleep_interval" ELSE "append_row"
    /\ UNCHANGED <<gm_shutdown, gm_sheet, gm_exit_code, gm_fetches, gm_slept,
                   gm_appended>>
    /\ UNCHANGED <<main_vars, sc_vars, ping_vars, pm_vars, dp_vars, df_vars, dm_vars, more_vars>>

\* lines 349-358: append_row (lines 211-223) returns False without a sheet
\* or after its attempts, True after an append; print_metrics.
GrokAppendRow ==
    /\ gm_pc = "append_row"
    /\ \E success \in BOOLEAN : gm_appended' = (gm_sheet /\ success)
    /\ gm_pc' = "sleep_rest"
    /\ UNCHANGED <<gm_shutdown, gm_sheet, gm_exit_code, gm_fetches, gm_slept,
                   gm_saved>>
    /\ UNCHANGED <<main_vars, sc_vars, ping_vars, pm_vars, dp_vars, df_vars, dm_vars, more_vars>>

\* lines 360-362: time.sleep(max(update_interval - elapsed_time, 0))
GrokSleepRest ==
    /\ gm_pc = "sleep_rest"
    /\ gm_slept' = TRUE
    /\ gm_pc' = "while"
    /\ UNCHANGED <<gm_shutdown, gm_sheet, gm_exit_code, gm_fetches, gm_saved,
                   gm_appended>>
    /\ UNCHANGED <<main_vars, sc_vars, ping_vars, pm_vars, dp_vars, df_vars, dm_vars, more_vars>>

\* lines 363-368: the handlers log and time.sleep(config.update_interval)
GrokSleepInterval ==
    /\ gm_pc = "sleep_interval"
    /\ gm_slept' = TRUE
    /\ gm_pc' = "while"
    /\ UNCHANGED <<gm_shutdown, gm_sheet, gm_exit_code, gm_fetches, gm_saved,
                   gm_appended>>
    /\ UNCHANGED <<main_vars, sc_vars, ping_vars, pm_vars, dp_vars, df_vars, dm_vars, more_vars>>

\* lines 330-336, signal_handler
GrokSignalHandler ==
    /\ gm_pc \in {"while", "fetch", "save_metrics", "append_row", "sleep_rest",
                  "sleep_interval"}
    /\ gm_shutdown' = TRUE
    /\ UNCHANGED <<gm_pc, gm_sheet, gm_exit_code, gm_fetches, gm_slept, gm_saved,
                   gm_appended>>
    /\ UNCHANGED <<main_vars, sc_vars, ping_vars, pm_vars, dp_vars, df_vars, dm_vars, more_vars>>

\* C20 (as claimed): two consecutive calls of get_all_monitors are always
\* separated by a sleep: when a call that is not the first one is made,
\* time.sleep has been called since the previous one.
C20_SleepBetweenFetches ==
    [][ (gm_fetches' = gm_fetches + 1 /\ gm_fetches > 0) => gm_slept ]_vars


(***************************************************************************)
(* Shinobi.py : the down alert after a failed attempt                      *)
(***************************************************************************)
\* C28 (as claimed): a failed down-alert attempt does not start the
\* cooldown: in every failing health check of an outage for which no alert
\* has been delivered yet, the alert is attempted, whatever was delivered
\* for earlier outages.
C28_FailedAlertRetried ==
    (pc \in {"sleep_interval", "while", "exited"} /\ prev_health = "FAIL"
        /\ server_status \in HealthStatuses \ {"OK"} /\ ~outage_delivered)
        => down_alert


(***************************************************************************)
(* server_check.py : the appended row and the tracker entry                *)
(***************************************************************************)
\* C27 (as claimed): the row appended for a server observed Down holds, in
\* its down-time field, the stored down-timestamp of the current outage.
C27_DownRowHoldsDownTime ==
    \A key \in ServerKeys :
        LET rows == appended[key]
            n == Len(rows)
        IN  (n > 0 /\ rows[n].row.status = "Down")
               => rows[n].row.down_time = server_status_tracker[key].last_down_time

\* notification_sent, last_status = "Down" and a stored down-timestamp go
\* together
TrackerConsistent(tracker) ==
    /\ tracker.notification_sent = (tracker.last_status = "Down")
    /\ tracker.notification_sent = (tracker.last_down_time /= None)

\* C29: after log_server_status has processed a server, its tracker entry
\* has notification_sent true iff last_status is "Down" iff last_down_time
\* is set, whatever Up/Down observations came before; and a step that
\* processes one server leaves the entries of the other servers as they
\* were.
C29_TrackerConsistent ==
    /\ [](\A key \in ServerKeys :
             Len(observations[key]) > 0
                => TrackerConsistent(server_status_tracker[key]))
    /\ [][\A key \in ServerKeys :
             observations'[key] = observations[key]
                => server_status_tracker'[key] = server_status_tracker[key]]_vars

\* one server is Down again after an outage and a recovery while another,
\* processed in the same runs, is Up after an outage
C29_Witness ==
    \E a, b \in ServerKeys :
        /\ a /= b
        /\ Len(observations[a]) = 3
        /\ observations[a][1].status = "Down"
        /\ observations[a][2].status = "Up"
        /\ observations[a][3].status = "Down"
        /\ server_status_tracker[a].notification_sent
        /\ Len(observations[b]) = 3
        /\ observations[b][2].status = "Down"
        /\ observations[b][3].status = "Up"
        /\ ~server_status_tracker[b].notification_sent
        /\ server_status_tracker[b].last_down_time = None


(***************************************************************************)
(* shinobi_deep.py : GoogleSheetsClient.append_row                         *)
(***************************************************************************)
\* Config.validate_non_negative_ints (lines 47-51)
validate_non_negative_ints(value) == value >= 0

\* 2 ** attempt
RECURSIVE Pow2(_)
Pow2(n) == IF n = 0 THEN 1 ELSE 2 * Pow2(n - 1)

\* what one self.sheet.append_row(row) call meets (lines 208-222): it
\* succeeds; gspread APIError with status 401/403, after which
\* _initialize_client succeeds or fails; APIError with another status; a
\* GSpreadException or RequestException; any other exception
DeepAppendOutcomes == {"ok", "auth_error_reauth_ok", "auth_error_reauth_failed",
                       "api_error", "network_error", "unexpected"}

\* lines 224-226: the wait after a failed attempt that is not the last
deep_sleeps_after(attempt, max_retries) == attempt < max_retries

DAStart ==
    /\ da_attempt = 0
    /\ da_result = <<>>
    /\ da_outcomes = <<>>
    /\ da_reauths = 0
    /\ da_waits = <<>>

DAInit ==
    /\ da_pc = "start"
    /\ da_max_retries \in {m \in (-1)..MaxRetries : validate_non_negative_ints(m)}
    /\ da_sheet \in BOOLEAN
    /\ DAStart

\* no call of shinobi_deep.py's append_row is being followed
DAIdle ==
    /\ da_pc = "off"
    /\ da_max_retries = 0
    /\ da_sheet = FALSE
    /\ DAStart

\* lines 203-207: without a sheet the client is initialised first; a failure
\* returns (False, "Client not initialized")
DeepAppendRowBegin ==
    /\ da_pc = "start"
    /\ \E init_ok \in BOOLEAN :
          IF da_sheet \/ init_ok
          THEN /\ da_sheet' = TRUE
               /\ da_pc' = "attempt"
               /\ da_result' = da_result
          ELSE /\ da_sheet' = da_sheet
               /\ da_pc' = "done"
               /\ da_result' = <<[ok |-> FALSE, msg |-> "Client not initialized"]>>
    /\ UNCHANGED <<da_max_retries, da_attempt, da_outcomes, da_reauths, da_waits>>
    /\ UNCHANGED not_da_vars

\* lines 207-228: one iteration of `for attempt in range(max_retries + 1)`,
\* and the return after the last one
DeepAppendRowAttempt ==
    /\ da_pc = "attempt"
    /\ \E outcome \in DeepAppendOutcomes :
          LET retry == outcome \in {"auth_error_reauth_ok", "api_error", "network_error"}
              last == da_attempt + 1 > da_max_retries
          IN  /\ da_outcomes' = Append(da_outcomes, outcome)
              /\ da_reauths' =
                    IF outcome \in {"auth_error_reauth_ok", "auth_error_reauth_failed"}
                    THEN da_reauths + 1
                    ELSE da_reauths
              /\ da_waits' =
                    IF retry /\ deep_sleeps_after(da_attempt, da_max_retries)
                    THEN Append(da_waits, Pow2(da_attempt))
                    ELSE da_waits
              /\ da_attempt' = IF retry THEN da_attempt + 1 ELSE da_attempt
              /\ da_pc' = IF retry /\ ~last THEN "attempt" ELSE "done"
              /\ da_result' =
                    CASE outcome = "ok" -> <<[ok |-> TRUE, msg |-> "Success"]>>
                      [] outcome = "auth_error_reauth_failed" ->
                            <<[ok |-> FALSE, msg |-> "Reauth failed"]>>
                      [] outcome = "unexpected" ->
                            <<[ok |-> FALSE, msg |-> "Critical failure"]>>
                      [] OTHER ->
                            IF last
                            THEN <<[ok |-> FALSE, msg |-> "Max retries exceeded"]>>
                            ELSE da_result
    /\ UNCHANGED <<da_max_retries, da_sheet>>
    /\ UNCHANGED not_da_vars

\* C22 (as claimed): within one append_row call the client re-authenticates
\* at most once; an authentication failure after a re-authentication ends
\* the call with failure.
C22_ReauthAtMostOnce ==
    /\ da_reauths <= 1
    /\ \A i, j \in DOMAIN da_outcomes :
          (i < j /\ da_outcomes[i] = "auth_error_reauth_ok"
                 /\ da_outcomes[j] \in {"auth_error_reauth_ok", "auth_error_reauth_failed"})
             => (da_pc = "done" /\ j = Len(da_outcomes)
                    /\ da_result /= <<>> /\ ~da_result[1].ok)


(***************************************************************************)
(* shinobi_deep.py : save_metrics                                          *)
(***************************************************************************)
\* line 333-334: the path built from the output directory and the time
OutputPath == "output_path"

\* line 343: the value returned after a logged failure
NoPath == ""

SVStart ==
    /\ sv_files = 0
    /\ sv_result = <<>>
    /\ sv_remove_failed = FALSE
    /\ sv_written = FALSE

\* max_log_files is a plain int field of Config (line 38): no validator
\* keeps it positive
SVInit ==
    /\ sv_pc = "makedirs"
    /\ sv_max_log_files \in 0..MaxLogFiles
    /\ sv_dir \in 0..MaxDirFiles
    /\ SVStart

\* no call of shinobi_deep.py's save_metrics is being followed
SVIdle ==
    /\ sv_pc = "off"
    /\ sv_max_log_files = 0
    /\ sv_dir = 0
    /\ SVStart

\* lines 322-329: makedirs and the sorted listing; an OSError of either
\* reaches the handler of line 338 and "" is returned (line 343)
SaveListFiles ==
    /\ sv_pc = "makedirs"
    /\ \E ok \in BOOLEAN :
          IF ok
          THEN /\ sv_files' = sv_dir
               /\ sv_pc' = "prune"
               /\ sv_result' = sv_result
          ELSE /\ sv_files' = sv_files
               /\ sv_pc' = "done"
               /\ sv_result' = <<NoPath>>
    /\ UNCHANGED <<sv_max_log_files, sv_dir, sv_remove_failed, sv_written>>
    /\ UNCHANGED not_sv_vars

\* lines 330-331: one test of `while len(files) >= config.max_log_files` and
\* one os.remove(files.pop(0)). pop on an empty list raises IndexError, a
\* failed os.remove raises OSError: both leave the try block for the
\* handlers of lines 338-342, and "" is returned (line 343).
SavePrune ==
    /\ sv_pc = "prune"
    /\ IF sv_files >= sv_max_log_files
       THEN IF sv_files = 0
            THEN /\ sv_pc' = "done"
                 /\ sv_result' = <<NoPath>>
                 /\ UNCHANGED <<sv_files, sv_dir, sv_remove_failed>>
            ELSE \E removed \in BOOLEAN :
                    IF removed
                    THEN /\ sv_files' = sv_files - 1
                         /\ sv_dir' = sv_dir - 1
                         /\ UNCHANGED <<sv_pc, sv_result, sv_remove_failed>>
                    ELSE /\ sv_remove_failed' = TRUE
                         /\ sv_pc' = "done"
                         /\ sv_result' = <<NoPath>>
                         /\ UNCHANGED <<sv_files, sv_dir>>
       ELSE /\ sv_pc' = "write"
            /\ UNCHANGED <<sv_files, sv_dir, sv_result, sv_remove_failed>>
    /\ UNCHANGED <<sv_max_log_files, sv_written>>
    /\ UNCHANGED not_sv_vars

\* lines 333-337: the new file is written and its path returned, or the
\* write raises and "" is returned
SaveWrite ==
    /\ sv_pc = "write"
    /\ \E ok \in BOOLEAN :
          IF ok
          THEN /\ sv_written' = TRUE
               /\ sv_dir' = sv_dir + 1
               /\ sv_result' = <<OutputPath>>
          ELSE /\ UNCHANGED <<sv_written, sv_dir>>
               /\ sv_result' = <<NoPath>>
    /\ sv_pc' = "done"
    /\ UNCHANGED <<sv_max_log_files, sv_files, sv_remove_failed>>
    /\ UNCHANGED not_sv_vars

\* C23 (as claimed): a call of save_metrics in which the deletion of an
\* old summary file failed still writes the cycle's summary file and
\* returns its path.
C23_PruneFailureNotFatal ==
    (sv_pc = "done" /\ sv_remove_failed)
        => (sv_written /\ sv_result = <<OutputPath>>)


(***************************************************************************)
(* shinobi_monitor.py : ShinobiAPI.get_all_monitors                        *)
(***************************************************************************)
\* what one pass of the try block (lines 176-183) meets: a list body; a dict
\* body with a true "ok"; a dict body without it; requests.Timeout;
\* requests.ConnectionError; the HTTPError of raise_for_status; a body that
\* is not JSON
MonitorFetchOutcomes == {"list", "dict_ok", "dict_not_ok", "timeout",
                         "connection_error", "http_error", "bad_json"}

\* what the call hands back for an outcome that ends it: the parsed body
\* (line 183) or None (lines 182, 191). resp.json() on a body that is not
\* JSON raises an exception that is a RequestException in some releases of
\* requests (None, line 191) and a plain ValueError in others (it leaves the
\* function).
monitor_fetch_returns(outcome) ==
    CASE outcome \in {"list", "dict_ok"} -> {"data"}
      [] outcome = "bad_json" -> {"None", "raised"}
      [] OTHER -> {"None"}

\* lines 184-188: only requests.Timeout continues the loop
monitor_fetch_retries(outcome) == outcome = "timeout"

\* lines 186-187: time.sleep(factor * 2 ** attempt) unless the attempt was
\* the last
monitor_fetch_sleeps(attempt, max_retries) == attempt < max_retries - 1

\* Config (lines 36-49) declares max_retries: int and
\* retry_backoff_factor: float without validators
MFStart ==
    /\ mf_attempt = 0
    /\ mf_result = <<>>
    /\ mf_outcomes = <<>>
    /\ mf_waits = <<>>

MFInit ==
    /\ mf_pc = "loop"
    /\ mf_max_retries \in (-1)..MaxRetries
    /\ mf_factor \in 1..MaxFactor
    /\ MFStart

\* no call of shinobi_monitor.py's get_all_monitors is being followed
MFIdle ==
    /\ mf_pc = "off"
    /\ mf_max_retries = 0
    /\ mf_factor = 1
    /\ MFStart

\* lines 175-191: one iteration of `for attempt in range(max_retries)`
MonitorFetchAttempt ==
    /\ mf_pc = "loop"
    /\ mf_attempt < mf_max_retries
    /\ \E outcome \in MonitorFetchOutcomes :
          /\ mf_outcomes' = Append(mf_outcomes, outcome)
          /\ IF monitor_fetch_retries(outcome)
             THEN /\ mf_waits' =
                        IF monitor_fetch_sleeps(mf_attempt, mf_max_retries)
                        THEN Append(mf_waits, mf_factor * Pow2(mf_attempt))
                        ELSE mf_waits
                  /\ mf_attempt' = mf_attempt + 1
                  /\ UNCHANGED <<mf_pc, mf_result>>
             ELSE /\ \E returned \in monitor_fetch_returns(outcome) :
                        mf_result' = <<returned>>
                  /\ mf_pc' = "done"
                  /\ UNCHANGED <<mf_attempt, mf_waits>>
    /\ UNCHANGED <<mf_max_retries, mf_factor>>
    /\ UNCHANGED not_mf_vars

\* lines 192-193: the loop is over, "Max retries reached", return None
MonitorFetchGiveUp ==
    /\ mf_pc = "loop"
    /\ mf_attempt >= mf_max_retries
    /\ mf_result' = <<"None">>
    /\ mf_pc' = "done"
    /\ UNCHANGED <<mf_max_retries, mf_factor, mf_attempt, mf_outcomes, mf_waits>>
    /\ UNCHANGED not_mf_vars

\* the waits the backoff policy prescribes after the first n failed attempts
MonitorFetchBackoff(n) == [k \in 1..n |-> mf_factor * Pow2(k - 1)]

\* C24 (as claimed): get_all_monitors re-attempts the GET after a timeout
\* and after a connection error alike, makes at most max_retries attempts,
\* waits retry_backoff_factor * 2^attempt between attempts and not after
\* the last, and returns None once the attempts are exhausted.
C24_RetriesTimeoutAndConnectionError ==
    /\ Len(mf_outcomes) <= IF mf_max_retries > 0 THEN mf_max_retries ELSE 0
    /\ \A i \in DOMAIN mf_outcomes :
          (mf_outcomes[i] \in {"timeout", "connection_error"} /\ i < mf_max_retries)
             => (i < Len(mf_outcomes) \/ mf_pc = "loop")
    /\ \A i \in DOMAIN mf_outcomes :
          i < Len(mf_outcomes) => Len(mf_waits) >= i
    /\ mf_waits = MonitorFetchBackoff(Len(mf_waits))
    /\ Len(mf_waits) < IF mf_max_retries > 0 THEN mf_max_retries ELSE 1
    /\ (mf_pc = "done" /\ Len(mf_outcomes) = mf_max_retries /\ mf_max_retries > 0
          /\ mf_outcomes[Len(mf_outcomes)] \in {"timeout", "connection_error"})
             => mf_result = <<"None">>


(***************************************************************************)
(* Shinobi.py : GoogleSheetsClient.append_row                              *)
(***************************************************************************)
\* line 294: the argument of time.sleep after the failed attempt `attempt`
append_backoff_linear(factor, attempt) == factor * (attempt + 1)
append_backoff(factor, attempt) == factor * Pow2(attempt)

ARStart ==
    /\ ar_attempt = 0
    /\ ar_result = <<>>
    /\ ar_outcomes = <<>>
    /\ ar_waits = <<>>

\* load_config (line 153) takes int(MAX_RETRIES) as it is, and Config
\* (lines 35-52) has no validator: zero and negative values are accepted
ARInit ==
    /\ ar_pc = "start"
    /\ ar_max_retries \in (-1)..MaxRetries
    /\ ar_factor \in 1..MaxFactor
    /\ ar_sheet \in BOOLEAN
    /\ ARStart

\* no call of Shinobi.py's append_row is being followed
ARIdle ==
    /\ ar_pc = "off"
    /\ ar_max_retries = 0
    /\ ar_factor = 1
    /\ ar_sheet = FALSE
    /\ ARStart

\* lines 285-287: without a sheet, False at once
SheetAppendBegin ==
    /\ ar_pc = "start"
    /\ IF ar_sheet
       THEN /\ ar_pc' = "loop"
            /\ ar_result' = ar_result
       ELSE /\ ar_pc' = "done"
            /\ ar_result' = <<FALSE>>
    /\ UNCHANGED <<ar_max_retries, ar_factor, ar_sheet, ar_attempt, ar_outcomes, ar_waits>>
    /\ UNCHANGED not_ar_vars

\* lines 288-294: one iteration of `for attempt in range(max_retries)`: the
\* append succeeds and True is returned, or it raises and the call sleeps
SheetAppendAttempt ==
    /\ ar_pc = "loop"
    /\ ar_attempt < ar_max_retries
    /\ \E success \in BOOLEAN :
          /\ ar_outcomes' = Append(ar_outcomes, success)
          /\ IF success
             THEN /\ ar_result' = <<TRUE>>
                  /\ ar_pc' = "done"
                  /\ UNCHANGED <<ar_attempt, ar_waits>>
             ELSE /\ ar_waits' = Append(ar_waits, append_backoff(ar_factor, ar_attempt))
                  /\ ar_attempt' = ar_attempt + 1
                  /\ UNCHANGED <<ar_pc, ar_result>>
    /\ UNCHANGED <<ar_max_retries, ar_factor, ar_sheet>>
    /\ UNCHANGED not_ar_vars

\* lines 295-296: the loop is over, "Max retries reached", return False
SheetAppendGiveUp ==
    /\ ar_pc = "loop"
    /\ ar_attempt >= ar_max_retries
    /\ ar_result' = <<FALSE>>
    /\ ar_pc' = "done"
    /\ UNCHANGED <<ar_max_retries, ar_factor, ar_sheet, ar_attempt, ar_outcomes, ar_waits>>
    /\ UNCHANGED not_ar_vars

\* the failed attempts among the first n
FailedAttempts(n) == {i \in 1..n : ~ar_outcomes[i]}

\* C25: append_row makes at most max_retries attempts, none after the
\* first that succeeds, returns True exactly when some attempt succeeded,
\* and the wait after the k-th failed attempt (k from 0) is
\* retry_backoff_factor * 2^k.
C25_AppendRetryPolicy ==
    /\ Len(ar_outcomes) <= IF ar_max_retries > 0 THEN ar_max_retries ELSE 0
    /\ \A i \in DOMAIN ar_outcomes : i < Len(ar_outcomes) => ~ar_outcomes[i]
    /\ ar_pc = "done" =>
          (ar_result = <<TRUE>>) = (\E i \in DOMAIN ar_outcomes : ar_outcomes[i])
    /\ Len(ar_waits) = Cardinality(FailedAttempts(Len(ar_outcomes)))
    /\ \A k \in DOMAIN ar_waits : ar_waits[k] = ar_factor * Pow2(k - 1)

\* a call that failed twice, waited twice and then appended
C25_Witness ==
    /\ ar_pc = "done"
    /\ ar_result = <<TRUE>>
    /\ Len(ar_outcomes) = 3
    /\ ar_waits = <<ar_factor, 2 * ar_factor>>

\* C30 (as claimed): with an initialized sheet and max_retries >= 0, a call
\* that reports failure has made at least one append attempt.
C30_AttemptBeforeFailure ==
    (ar_pc = "done" /\ ar_sheet /\ ar_max_retries >= 0 /\ ar_result = <<FALSE>>)
        => Len(ar_outcomes) >= 1


(***************************************************************************)
(* status_check.py : the __main__ loop and main()                          *)
(***************************************************************************)
\* line 170: the process is about to enter `while True`
STInit ==
    /\ st_pc = "loop"
    /\ st_sheet = FALSE
    /\ st_exit = "running"
    /\ st_cycles = 0
    /\ st_written = FALSE
    /\ st_append_called = FALSE
    /\ st_files = 0
    /\ st_rows = 0
    /\ st_errors = 0

\* status_check.py is not being followed
STIdle ==
    /\ st_pc = "off"
    /\ st_sheet = FALSE
    /\ st_exit = "running"
    /\ st_cycles = 0
    /\ st_written = FALSE
    /\ st_append_called = FALSE
    /\ st_files = 0
    /\ st_rows = 0
    /\ st_errors = 0

\* the positions inside the try block of lines 172-178
StatusInsideTry == {"fetch", "write", "append", "sleep"}

\* lines 171-174, 81-82: a pass of the loop enters the try block and calls
\* main(), which builds a new GoogleSheetsClient (lines 59-66: sheet is None
\* after a failed initialisation)
StatusStartCycle ==
    /\ st_pc = "loop"
    /\ st_cycles < MaxStatusCycles
    /\ st_cycles' = st_cycles + 1
    /\ st_sheet' \in BOOLEAN
    /\ st_written' = FALSE
    /\ st_append_called' = FALSE
    /\ st_pc' = "fetch"
    /\ UNCHANGED <<st_exit, st_files, st_rows, st_errors>>
    /\ UNCHANGED not_st_vars

\* lines 86-135: get_all_monitors returns None on any failure; main returns
\* early unless the data is a non-empty list; the processing is pure
StatusFetch ==
    /\ st_pc = "fetch"
    /\ \E usable \in BOOLEAN : st_pc' = IF usable THEN "write" ELSE "sleep"
    /\ UNCHANGED <<st_sheet, st_exit, st_cycles, st_written, st_append_called,
                   st_files, st_rows, st_errors>>
    /\ UNCHANGED not_st_vars

\* lines 138-141: the JSON file is written; open or json.dump raising is not
\* caught in main and reaches `except Exception` of line 182
StatusWrite ==
    /\ st_pc = "write"
    /\ \E ok \in BOOLEAN :
          IF ok
          THEN /\ st_written' = TRUE
               /\ st_files' = st_files + 1
               /\ st_pc' = "append"
          ELSE /\ UNCHANGED <<st_written, st_files>>
               /\ st_pc' = "error_sleep"
    /\ UNCHANGED <<st_sheet, st_exit, st_cycles, st_append_called, st_rows, st_errors>>
    /\ UNCHANGED not_st_vars

\* lines 144-167, 68-77: append_row is called; it appends when the sheet is
\* set and the request succeeds and logs every Exception; then the metrics
\* are printed and main returns
StatusAppend ==
    /\ st_pc = "append"
    /\ st_append_called' = TRUE
    /\ \E ok \in BOOLEAN :
          st_rows' = IF st_sheet /\ ok THEN st_rows + 1 ELSE st_rows
    /\ st_pc' = "sleep"
    /\ UNCHANGED <<st_sheet, st_exit, st_cycles, st_written, st_files, st_errors>>
    /\ UNCHANGED not_st_vars

\* lines 175-178: the rest of the minute is slept and the loop goes round
StatusSleep ==
    /\ st_pc = "sleep"
    /\ st_pc' = "loop"
    /\ UNCHANGED <<st_sheet, st_exit, st_cycles, st_written, st_append_called,
                   st_files, st_rows, st_errors>>
    /\ UNCHANGED not_st_vars

\* lines 182-184: the error is logged, 60 seconds are slept, the loop goes
\* round
StatusErrorSleep ==
    /\ st_pc = "error_sleep"
    /\ st_errors' = st_errors + 1
    /\ st_pc' = "loop"
    /\ UNCHANGED <<st_sheet, st_exit, st_cycles, st_written, st_append_called,
                   st_files, st_rows>>
    /\ UNCHANGED not_st_vars

\* Ctrl-C raises KeyboardInterrupt in the main thread at whatever statement
\* is running. Inside the try block it is caught at line 179 (it is not an
\* Exception, so line 76 does not catch it either) and the loop breaks;
\* inside the handler of lines 182-184 or at the loop test nothing catches
\* it and the process dies with a traceback.
StatusInterrupt ==
    /\ st_pc \in StatusInsideTry \cup {"error_sleep", "loop"}
    /\ st_exit' = IF st_pc \in StatusInsideTry THEN "break" ELSE "uncaught"
    /\ st_pc' = "exited"
    /\ UNCHANGED <<st_sheet, st_cycles, st_written, st_append_called, st_files, st_rows, st_errors>>
    /\ UNCHANGED not_st_vars

\* C26 (as claimed): an interrupt never stops the loop in the middle of a
\* cycle: when the process has exited, the cycle that wrote its JSON
\* summary file has also made its spreadsheet append.
C26_InterruptNeverMidCycle ==
    (st_pc = "exited" /\ st_written) => st_append_called


(***************************************************************************)
(* Specifications                                                          *)
(***************************************************************************)
\* server_check.py is not running
SCIdle ==
    /\ sc_pc = "off"
    /\ SCStart

\* the scripts and calls that a specification does not follow
OldIdle ==
    MainIdle /\ SCIdle /\ PingIdle /\ PMIdle /\ DPIdle /\ DFIdle /\ DMIdle /\ GMIdle

MoreIdle == DAIdle /\ SVIdle /\ MFIdle /\ ARIdle /\ STIdle

Next ==
    \/ LoadConfig
    \/ InitClients
    \/ LoopCheck
    \/ HealthCheck
    \/ GetAllMonitors
    \/ SaveMetrics
    \/ AppendRow
    \/ SleepRest
    \/ SleepInterval
    \/ SignalHandler

\* Shinobi.py, from process start
Init == MainInit /\ SCIdle /\ PingIdle /\ PMIdle /\ DPIdle /\ DFIdle /\ DMIdle /\ GMIdle /\ MoreIdle

Spec == Init /\ [][Next]_vars

SCNext ==
    \/ StartRun
    \/ LogServer
    \/ SaveWorkbook

\* server_check.py, from process start
InitServerCheck == SCInit /\ MainIdle /\ PingIdle /\ PMIdle /\ DPIdle /\ DFIdle /\ DMIdle /\ GMIdle /\ MoreIdle

SpecServerCheck == InitServerCheck /\ [][SCNext]_vars

\* one call of ping_server, on every combination of probe outcomes
InitPing == PingInit /\ MainIdle /\ SCIdle /\ PMIdle /\ DPIdle /\ DFIdle /\ DMIdle /\ GMIdle /\ MoreIdle

NextPing == PingServer

SpecPing == InitPing /\ [][NextPing]_vars

\* one call of process_monitors (Shinobi.py), on every input explored
InitProcess == PMInit /\ MainIdle /\ SCIdle /\ PingIdle /\ DPIdle /\ DFIdle /\ DMIdle /\ GMIdle /\ MoreIdle

NextProcess ==
    \/ ProcessMonitors
    \/ ProcessMonitorsAgain

SpecProcess == InitProcess /\ [][NextProcess]_vars

\* one call of process_monitors (shinobi_deep.py), on every input explored
InitProcessDeep == DPInit /\ MainIdle /\ SCIdle /\ PingIdle /\ PMIdle /\ DFIdle /\ DMIdle /\ GMIdle /\ MoreIdle

NextProcessDeep == DeepProcessMonitors

SpecProcessDeep == InitProcessDeep /\ [][NextProcessDeep]_vars

\* a series of calls of ShinobiAPI.get_all_monitors (shinobi_deep.py)
InitFetchDeep == DFInit /\ MainIdle /\ SCIdle /\ PingIdle /\ PMIdle /\ DPIdle /\ DMIdle /\ GMIdle /\ MoreIdle

NextFetchDeep == DeepGetAllMonitors

SpecFetchDeep == InitFetchDeep /\ [][NextFetchDeep]_vars

NextDeep ==
    \/ DeepStart
    \/ DeepLoopCheck
    \/ DeepFetch
    \/ DeepSaveMetrics
    \/ DeepAppendRow
    \/ DeepEndCycle
    \/ DeepSleep
    \/ DeepSignalHandler

\* shinobi_deep.py, from process start
InitDeep == DMInit /\ MainIdle /\ SCIdle /\ PingIdle /\ PMIdle /\ DPIdle /\ DFIdle /\ GMIdle /\ MoreIdle

SpecDeep == InitDeep /\ [][NextDeep]_vars

NextGrok ==
    \/ GrokStart
    \/ GrokLoopCheck
    \/ GrokFetch
    \/ GrokSaveMetrics
    \/ GrokAppendRow
    \/ GrokSleepRest
    \/ GrokSleepInterval
    \/ GrokSignalHandler

\* optimized_shinobi_grok.py, from process start
InitGrok ==
    GMInit /\ MainIdle /\ SCIdle /\ PingIdle /\ PMIdle /\ DPIdle /\ DFIdle /\ DMIdle /\ MoreIdle

SpecGrok == InitGrok /\ [][NextGrok]_vars

NextAppendDeep ==
    \/ DeepAppendRowBegin
    \/ DeepAppendRowAttempt

\* one call of GoogleSheetsClient.append_row (shinobi_deep.py)
InitAppendDeep == DAInit /\ OldIdle /\ SVIdle /\ MFIdle /\ ARIdle /\ STIdle

SpecAppendDeep == InitAppendDeep /\ [][NextAppendDeep]_vars

NextSaveDeep ==
    \/ SaveListFiles
    \/ SavePrune
    \/ SaveWrite

\* one call of save_metrics (shinobi_deep.py)
InitSaveDeep == SVInit /\ OldIdle /\ DAIdle /\ MFIdle /\ ARIdle /\ STIdle

SpecSaveDeep == InitSaveDeep /\ [][NextSaveDeep]_vars

NextMonitorFetch ==
    \/ MonitorFetchAttempt
    \/ MonitorFetchGiveUp

\* one call of ShinobiAPI.get_all_monitors (shinobi_monitor.py)
InitMonitorFetch == MFInit /\ OldIdle /\ DAIdle /\ SVIdle /\ ARIdle /\ STIdle

SpecMonitorFetch == InitMonitorFetch /\ [][NextMonitorFetch]_vars

NextAppend ==
    \/ SheetAppendBegin
    \/ SheetAppendAttempt
    \/ SheetAppendGiveUp

\* one call of GoogleSheetsClient.append_row (Shinobi.py)
InitAppend == ARInit /\ OldIdle /\ DAIdle /\ SVIdle /\ MFIdle /\ STIdle

SpecAppend == InitAppend /\ [][NextAppend]_vars

NextStatus ==
    \/ StatusStartCycle
    \/ StatusFetch
    \/ StatusWrite
    \/ StatusAppend
    \/ StatusSleep
    \/ StatusErrorSleep
    \/ StatusInterrupt

\* status_check.py run as a script
InitStatus == STInit /\ OldIdle /\ DAIdle /\ SVIdle /\ MFIdle /\ ARIdle

SpecStatus == InitStatus /\ [][NextStatus]_vars

====
